---- MODULE Spec2Model ----
(***************************************************************************)
(* The report pipeline of americanaidream: the analyze-ai-economy edge     *)
(* function (three versions of the handler are kept in the repository),    *)
(* the reports table it appends to, and the external sources it calls.     *)
(*                                                                         *)
(* A run is one invocation of the Deno.serve handler.  The handler is      *)
(* asynchronous: between two awaits it runs without interruption, so each  *)
(* action below is one such segment, from the return of an external call   *)
(* to the next external call or to the Response.                           *)
(***************************************************************************)
EXTENDS Integers, Sequences, FiniteSets, TLC

(***************************************************************************)
(* Bounds of the model.                                                    *)
(***************************************************************************)
\* Handler invocations that exist in one behaviour.
MaxRuns == 2
\* Longest model text, counted in tokens (see RawTokens).
MaxRawLen == 2

Runs == 1..MaxRuns

(***************************************************************************)
(* JavaScript values, as the handler sees them after JSON.parse.           *)
(***************************************************************************)
Undefined == [type |-> "undefined", num |-> 0, str |-> ""]
Null == [type |-> "null", num |-> 0, str |-> ""]
Num(n) == [type |-> "number", num |-> n, str |-> ""]
Str(s) == [type |-> "string", num |-> 0, str |-> s]

\* !v is FALSE exactly for the truthy values: a number other than 0, a
\* string other than "".
Truthy(v) ==
    \/ v.type = "number" /\ v.num # 0
    \/ v.type = "string" /\ v.str # ""

\* JSON.stringify drops a key whose value is undefined; the column is NULL.
ToColumn(v) == IF v.type = "undefined" THEN Null ELSE v

(***************************************************************************)
(* The three versions of the handler.                                      *)
(***************************************************************************)
HandlerVersions == {"index.ts", "part_000", "part_001"}

\* part_001 predates the macro series: it neither reads FRED_API_KEY nor
\* calls the FRED endpoint.
HasMacroStep(v) == v # "part_001"

corsHeaders == {"Access-Control-Allow-Origin", "Access-Control-Allow-Headers"}

FRED_SERIES ==
    << [id |-> "UNRATE", title |-> "US Unemployment Rate (%)"],
       [id |-> "INDPRO", title |-> "Industrial Production Index (2017=100)"],
       [id |-> "PAYEMS", title |-> "Total Non-farm Payroll Employment (thousands)"],
       [id |-> "CES0500000003", title |-> "Average Hourly Earnings, Total Private ($)"],
       [id |-> "AWHMAN", title |-> "Average Weekly Hours, Manufacturing (hours)"] >>

NoSeries == [id |-> "", title |-> ""]

(***************************************************************************)
(* Messages.  A message is the sequence of the fragments of its text, so   *)
(* that a template literal keeps the value it interpolates apart.          *)
(***************************************************************************)
NoMessage == << >>

Mentions(msg, word) == \E i \in 1..Len(msg) : msg[i] = word

(***************************************************************************)
(* Environment: the set of the variables Deno.env.get finds non-empty.     *)
(***************************************************************************)
EnvKeys ==
    {"SUPABASE_URL", "SUPABASE_SERVICE_ROLE_KEY", "NEWS_API_KEY",
     "OPENAI_API_KEY", "FRED_API_KEY"}

\* ConfigError without the check of FRED_API_KEY (the checks of part_001 kept
\* in a version that calls FRED).
ConfigError_NoFredCheck(v, e) ==
    IF "SUPABASE_URL" \notin e \/ "SUPABASE_SERVICE_ROLE_KEY" \notin e
    THEN <<"Supabase", " configuration missing">>
    ELSE IF "NEWS_API_KEY" \notin e
    THEN <<"NEWS_API_KEY", " not configured">>
    ELSE IF "OPENAI_API_KEY" \notin e
    THEN <<"OPENAI_API_KEY", " not configured">>
    ELSE NoMessage

\* ConfigError with the messages of the news and the model key exchanged.
ConfigError_NamesWrongKey(v, e) ==
    IF "SUPABASE_URL" \notin e \/ "SUPABASE_SERVICE_ROLE_KEY" \notin e
    THEN <<"Supabase", " configuration missing">>
    ELSE IF "NEWS_API_KEY" \notin e
    THEN <<"OPENAI_API_KEY", " not configured">>
    ELSE IF "OPENAI_API_KEY" \notin e
    THEN <<"NEWS_API_KEY", " not configured">>
    ELSE IF HasMacroStep(v) /\ "FRED_API_KEY" \notin e
    THEN <<"FRED_API_KEY", " not configured">>
    ELSE NoMessage

\* The message of the Error the environment checks throw, NoMessage when
\* they all pass.
ConfigError(v, e) ==
    IF "SUPABASE_URL" \notin e \/ "SUPABASE_SERVICE_ROLE_KEY" \notin e
    THEN <<"Supabase", " configuration missing">>
    ELSE IF "NEWS_API_KEY" \notin e
    THEN <<"NEWS_API_KEY", " not configured">>
    ELSE IF "OPENAI_API_KEY" \notin e
    THEN <<"OPENAI_API_KEY", " not configured">>
    ELSE IF HasMacroStep(v) /\ "FRED_API_KEY" \notin e
    THEN <<"FRED_API_KEY", " not configured">>
    ELSE NoMessage

(***************************************************************************)
(* The model's answer.  The text of the answer is a sequence of tokens:    *)
(* the fence marker ```, the word json, a newline, a JSON value, and text  *)
(* that is no JSON, holds no marker and does not begin with json.  A JSON  *)
(* value is an object over the keys the prompts of the three versions ask  *)
(* for, or null.                                                           *)
(***************************************************************************)
AnalysisKeys ==
    {"rating", "summary", "productivity_insight", "american_dream_impact",
     "prod_labor_score", "prod_labor_tip", "american_dream_score",
     "american_dream_tip", "american_dream_tooltip"}

NumericKeys == {"rating", "prod_labor_score", "american_dream_score"}

EmptyObject == [k \in AnalysisKeys |-> Undefined]

JsonNull == [json |-> "null", obj |-> EmptyObject]
JsonObject(o) == [json |-> "object", obj |-> o]

\* An answer that follows the prompt of the version: every key the prompt
\* lists, a rating of 7, scores of 50, and for each text key a text of its
\* own.
PromptKeys(v) ==
    CASE v = "index.ts" ->
           {"rating", "summary", "productivity_insight", "american_dream_impact",
            "prod_labor_score", "prod_labor_tip", "american_dream_score",
            "american_dream_tip"}
      [] v = "part_000" ->
           {"rating", "summary", "prod_labor_score", "prod_labor_tip",
            "american_dream_score", "american_dream_tooltip"}
      [] v = "part_001" ->
           {"rating", "summary", "productivity_insight", "american_dream_impact"}

PromptedObject(v) ==
    [k \in AnalysisKeys |->
        IF k \notin PromptKeys(v) THEN Undefined
        ELSE IF k = "rating" THEN Num(7)
        ELSE IF k \in NumericKeys THEN Num(50)
        ELSE Str(k)]

\* The keys of the tooltip texts, for which the prompts ask for 120
\* characters or less.
TooltipKeys == {"prod_labor_tip", "american_dream_tip", "american_dream_tooltip"}

\* A text of 121 characters.
LongTooltip ==
    "A tooltip text longer than the prompt allows: xxxxxxxxxxxxxxxxxxxxxxxxxxxxxxxxxxxxxxxxxxxxxxxxxxxxxxxxxxxxxxxxxxxxxxxxxxx"

\* What the model may put under one key instead.
OtherValues(k) ==
    IF k = "rating"
    THEN {Undefined, Num(0), Num(1), Num(10), Num(11), Str("7")}
    ELSE IF k \in NumericKeys
    THEN {Undefined, Num(-1), Num(0), Num(100), Num(101), Str("50")}
    ELSE IF k \in TooltipKeys
    THEN {Undefined, Str(""), Str(LongTooltip)}
    ELSE {Undefined, Str("")}

\* The objects the model may return to the prompt of version v: what the
\* prompt asks for, with at most one key set to another value, or what the
\* prompt of another version asks for.
ModelObjects(v) ==
    {PromptedObject(w) : w \in HandlerVersions}
    \cup UNION {{[PromptedObject(v) EXCEPT ![k] = x] : x \in OtherValues(k)} :
                  k \in AnalysisKeys}

JsonValues(v) == {JsonNull} \cup {JsonObject(o) : o \in ModelObjects(v)}

TokenKinds == {"fence", "json", "newline", "text", "value"}

Token(kind, value) == [kind |-> kind, value |-> value]

RawShapes == UNION {[1..n -> TokenKinds] : n \in 0..MaxRawLen}

Fill(shape, value) ==
    [i \in 1..Len(shape) |->
        Token(shape[i], IF shape[i] = "value" THEN value ELSE JsonNull)]

\* message.content of the first choice: a text, or null (a refusal, a tool
\* call).
NullContent == [type |-> "null", tokens |-> << >>]
TextContent(tokens) == [type |-> "string", tokens |-> tokens]

RawContents ==
    [v \in HandlerVersions |->
        {NullContent}
        \cup {TextContent(Fill(s, j)) : s \in RawShapes, j \in JsonValues(v)}]

\* text.replace(/```json\n?/g, ''): every marker followed by the word json
\* goes, together with one newline that follows it directly.
RECURSIVE StripJsonFence(_)
StripJsonFence(tokens) ==
    IF tokens = << >> THEN << >>
    ELSE IF Len(tokens) >= 2 /\ tokens[1].kind = "fence" /\ tokens[2].kind = "json"
    THEN IF Len(tokens) >= 3 /\ tokens[3].kind = "newline"
         THEN StripJsonFence(SubSeq(tokens, 4, Len(tokens)))
         ELSE StripJsonFence(SubSeq(tokens, 3, Len(tokens)))
    ELSE <<Head(tokens)>> \o StripJsonFence(Tail(tokens))

\* text.replace(/```\n?/g, ''): every marker goes, together with one newline
\* that follows it directly.
RECURSIVE StripFence(_)
StripFence(tokens) ==
    IF tokens = << >> THEN << >>
    ELSE IF Head(tokens).kind = "fence"
    THEN IF Len(tokens) >= 2 /\ tokens[2].kind = "newline"
         THEN StripFence(SubSeq(tokens, 3, Len(tokens)))
         ELSE StripFence(Tail(tokens))
    ELSE <<Head(tokens)>> \o StripFence(Tail(tokens))

\* String.prototype.trim: white space goes from both ends.
RECURSIVE TrimStart(_)
TrimStart(tokens) ==
    IF tokens # << >> /\ Head(tokens).kind = "newline"
    THEN TrimStart(Tail(tokens))
    ELSE tokens

RECURSIVE TrimEnd(_)
TrimEnd(tokens) ==
    IF tokens # << >> /\ tokens[Len(tokens)].kind = "newline"
    THEN TrimEnd(SubSeq(tokens, 1, Len(tokens) - 1))
    ELSE tokens

Trim(tokens) == TrimEnd(TrimStart(tokens))

\* cleanedContent without the first replace: the markers go, the word json
\* stays.
cleanedContent_MarkersOnly(tokens) ==
    Trim(StripFence(tokens))

\* rawContent.replace(/```json\n?/g, '').replace(/```\n?/g, '').trim()
cleanedContent(tokens) ==
    Trim(StripFence(StripJsonFence(tokens)))

\* JSON.parse: the text is one JSON value, white space allowed around it.
\* Anything else is a SyntaxError.
JsonParses(tokens) == Len(Trim(tokens)) = 1 /\ Trim(tokens)[1].kind = "value"

JsonParse(tokens) == Trim(tokens)[1].value

\* A text as the fragments of a message, one for each token.
Fragments(tokens) == [i \in 1..Len(tokens) |-> tokens[i].kind]

\* The message of the SyntaxError JSON.parse throws: an empty text, a JSON
\* value with more text after it, or a text that begins with no JSON value,
\* which the message quotes (the runtime shortens a long text).
JsonSyntaxError(tokens) ==
    IF Trim(tokens) = << >>
    THEN <<"Unexpected end of JSON input">>
    ELSE IF Trim(tokens)[1].kind = "value"
    THEN <<"Unexpected non-whitespace character after JSON">>
    ELSE <<"Unexpected token, ">> \o Fragments(tokens) \o <<" is not valid JSON">>

(***************************************************************************)
(* Validation of the parsed answer.                                        *)
(***************************************************************************)
RequiredFields(v) ==
    CASE v = "index.ts" ->
           {"rating", "summary", "productivity_insight", "american_dream_impact",
            "prod_labor_score", "prod_labor_tip", "american_dream_score",
            "american_dream_tip"}
      [] v = "part_000" ->
           {"rating", "summary", "prod_labor_score", "prod_labor_tip",
            "american_dream_score", "american_dream_tooltip"}
      [] v = "part_001" ->
           {"rating", "summary", "productivity_insight", "american_dream_impact"}

\* MissingRequired with the field list short of the tooltip texts.
MissingRequired_NoTips(v, o) ==
    \E k \in RequiredFields(v) \ {"prod_labor_tip", "american_dream_tip",
                                  "american_dream_tooltip"} : ~Truthy(o[k])

\* MissingRequired with the field list of the first schema, rating and
\* summary only.
MissingRequired_FirstSchema(v, o) == \E k \in {"rating", "summary"} : ~Truthy(o[k])

\* if (!analysis.rating || !analysis.summary || ...) throw
MissingRequired(v, o) == \E k \in RequiredFields(v) : ~Truthy(o[k])

\* OutOfBounds without the comparison against the upper bound.
OutOfBounds_NoUpperBound(x, lo, hi) == x.type # "number" \/ x.num < lo

\* typeof x !== 'number' || x < lo || x > hi
OutOfBounds(x, lo, hi) == x.type # "number" \/ x.num < lo \/ x.num > hi

RatingMin == 1
RatingMax == 10
ScoreMin == 0
ScoreMax == 100

\* The message of the Error thrown between JSON.parse and the end of the
\* try block, NoMessage when the block completes.
ValidationError(v, j) ==
    IF j.json = "null"
    THEN <<"Cannot read properties of null (reading 'rating')">>
    ELSE IF MissingRequired(v, j.obj)
    THEN <<"Missing required fields in AI response">>
    ELSE IF OutOfBounds(j.obj["rating"], RatingMin, RatingMax)
    THEN <<"Rating must be a number between 1 and 10">>
    ELSE IF HasMacroStep(v)
            /\ OutOfBounds(j.obj["prod_labor_score"], ScoreMin, ScoreMax)
    THEN <<"Productivity vs Labor score must be a number between 0 and 100">>
    ELSE IF HasMacroStep(v)
            /\ OutOfBounds(j.obj["american_dream_score"], ScoreMin, ScoreMax)
    THEN <<"American Dream score must be a number between 0 and 100">>
    ELSE NoMessage

\* The whole try block: parseError.message, NoMessage when nothing is thrown.
ParseError(v, rawContent) ==
    IF rawContent.type # "string"
    THEN <<"Cannot read properties of null (reading 'replace')">>
    ELSE IF ~JsonParses(cleanedContent(rawContent.tokens))
    THEN JsonSyntaxError(cleanedContent(rawContent.tokens))
    ELSE ValidationError(v, JsonParse(cleanedContent(rawContent.tokens)))

(***************************************************************************)
(* The news source.                                                        *)
(***************************************************************************)
Article(n, description) ==
    [title |-> n, description |-> description, publishedAt |-> n]

\* The article lists the news source answers with.
ArticleLists ==
    { << >>,
      <<Article(1, Str("description"))>>,
      <<Article(1, Str("description")), Article(2, Null)>> }

\* An HTTP response of the news source: a status and, under a success
\* status, a JSON body that may lack the articles key.
NewsResponses ==
    {[ok |-> FALSE, status |-> st, hasArticles |-> FALSE, articles |-> << >>] :
        st \in {401, 429}}
    \cup {[ok |-> TRUE, status |-> 200, hasArticles |-> FALSE, articles |-> << >>]}
    \cup {[ok |-> TRUE, status |-> 200, hasArticles |-> TRUE, articles |-> l] :
            l \in ArticleLists}

NoNewsResponse ==
    [ok |-> FALSE, status |-> 0, hasArticles |-> FALSE, articles |-> << >>]

\* if (!newsResponse.ok) throw: the message, NoMessage under a success status.
NewsError(news) ==
    IF ~news.ok THEN <<"NewsAPI error: ", ToString(news.status)>> ELSE NoMessage

\* newsData.articles || []
ArticlesOf(news) == IF news.hasArticles THEN news.articles ELSE << >>

\* NoArticles without the check.
NoArticles_Unchecked(found) == FALSE

\* if (articles.length === 0) throw
NoArticles(found) == Len(found) = 0

\* articles.slice(0, 15)
PromptArticles == 15

Min(a, b) == IF a < b THEN a ELSE b

\* articlesText without slice(0, 15): an excerpt for every fetched article.
articlesText_Unsliced(articles) ==
    [i \in 1..Len(articles) |->
        [title |-> articles[i].title,
         description |-> IF Truthy(articles[i].description)
                         THEN articles[i].description.str
                         ELSE "No description",
         date |-> articles[i].publishedAt]]

\* articles.slice(0, 15).map(...): one excerpt for each article.
articlesText(articles) ==
    [i \in 1..Min(Len(articles), PromptArticles) |->
        [title |-> articles[i].title,
         description |-> IF Truthy(articles[i].description)
                         THEN articles[i].description.str
                         ELSE "No description",
         date |-> articles[i].publishedAt]]

(***************************************************************************)
(* The macro series source (FRED).                                         *)
(***************************************************************************)
Observation(date, value) == [date |-> date, value |-> value]

\* parseFloat of the texts the source sends as values: a numeral gives its
\* number, "." and any other text give NaN.
NaN == [type |-> "number", num |-> 0, str |-> "NaN"]

ParseFloat(text) ==
    IF \E n \in 0..9 : ToString(n) = text
    THEN Num(CHOOSE n \in 0..9 : ToString(n) = text)
    ELSE NaN

IsNaN(x) == x = NaN

\* .slice(-60)
SeriesPoints == 60

\* filter(...).map(...).slice(-60)
RECURSIVE ValidPoints(_)
ValidPoints(observations) ==
    IF observations = << >> THEN << >>
    ELSE LET obs == Head(observations)
         IN (IF obs.value # "." /\ ~IsNaN(ParseFloat(obs.value))
             THEN <<[date |-> obs.date, value |-> ParseFloat(obs.value).num]>>
             ELSE << >>)
            \o ValidPoints(Tail(observations))

\* LastN as slice(0, n): the first n.
LastN_FirstN(s, n) == IF Len(s) <= n THEN s ELSE SubSeq(s, 1, n)

\* slice(-n)
LastN(s, n) == IF Len(s) <= n THEN s ELSE SubSeq(s, Len(s) - n + 1, Len(s))

SeriesDataOf(hasObservations, observations) ==
    IF hasObservations THEN LastN(ValidPoints(observations), SeriesPoints) ELSE << >>

ObservationLists ==
    { << >>,
      <<Observation(1, ".")>>,
      <<Observation(1, "4")>>,
      <<Observation(1, "4"), Observation(2, "."), Observation(3, "5")>> }

FredResponses ==
    {[ok |-> FALSE, status |-> st, hasObservations |-> FALSE, observations |-> << >>] :
        st \in {400, 503}}
    \cup {[ok |-> TRUE, status |-> 200, hasObservations |-> FALSE,
           observations |-> << >>]}
    \cup {[ok |-> TRUE, status |-> 200, hasObservations |-> TRUE, observations |-> l] :
            l \in ObservationLists}

NoFredResponse ==
    [ok |-> FALSE, status |-> 0, hasObservations |-> FALSE, observations |-> << >>]

\* FredError without the status check.
FredError_Unchecked(fred) == NoMessage

\* if (!fredResponse.ok) throw: the message, NoMessage under a success status.
FredError(fred) ==
    IF ~fred.ok THEN <<"FRED API error: ", ToString(fred.status)>> ELSE NoMessage

(***************************************************************************)
(* The model source (OpenAI).                                              *)
(***************************************************************************)
NoOpenAIResponse ==
    [ok |-> FALSE, status |-> 0, hasChoices |-> FALSE, content |-> NullContent]

\* if (!openaiResponse.ok) throw, then openaiData.choices[0].message.content:
\* the message of what is thrown before the try block, NoMessage otherwise.
OpenAIError(openai) ==
    IF ~openai.ok THEN <<"OpenAI API error: ", ToString(openai.status)>>
    ELSE IF ~openai.hasChoices
    THEN <<"Cannot read properties of undefined (reading '0')">>
    ELSE NoMessage

OpenAIResponses ==
    [v \in HandlerVersions |->
        {[ok |-> FALSE, status |-> st, hasChoices |-> FALSE, content |-> NullContent] :
            st \in {429, 500}}
        \cup {[ok |-> TRUE, status |-> 200, hasChoices |-> FALSE,
               content |-> NullContent]}
        \cup {[ok |-> TRUE, status |-> 200, hasChoices |-> TRUE, content |-> c] :
                c \in RawContents[v]}]

(***************************************************************************)
(* The reports table.                                                      *)
(***************************************************************************)
NullColumns ==
    [rating |-> Null, summary |-> Null, productivity_insight |-> Null,
     american_dream_impact |-> Null, prod_labor_score |-> Null,
     prod_labor_tooltip |-> Null, american_dream_score |-> Null,
     american_dream_tooltip |-> Null, series_id |-> Null, series_title |-> Null,
     series_data |-> << >>]

\* InsertColumns with american_dream_tooltip read from american_dream_tip in
\* every version.
InsertColumns_TipOnly(v, o, series, points) ==
    [NullColumns EXCEPT
        !.rating = ToColumn(o["rating"]),
        !.summary = ToColumn(o["summary"]),
        !.productivity_insight = ToColumn(o["productivity_insight"]),
        !.american_dream_impact = ToColumn(o["american_dream_impact"]),
        !.prod_labor_score = ToColumn(o["prod_labor_score"]),
        !.prod_labor_tooltip = ToColumn(o["prod_labor_tip"]),
        !.american_dream_score = ToColumn(o["american_dream_score"]),
        !.american_dream_tooltip = ToColumn(o["american_dream_tip"]),
        !.series_id = Str(series.id),
        !.series_title = Str(series.title),
        !.series_data = points]

\* The object handed to .insert(): the columns the version names, the rest
\* of the row being NULL.
InsertColumns(v, o, series, points) ==
    IF HasMacroStep(v)
    THEN [rating |-> ToColumn(o["rating"]),
          summary |-> ToColumn(o["summary"]),
          productivity_insight |-> ToColumn(o["productivity_insight"]),
          american_dream_impact |-> ToColumn(o["american_dream_impact"]),
          prod_labor_score |-> ToColumn(o["prod_labor_score"]),
          prod_labor_tooltip |-> ToColumn(o["prod_labor_tip"]),
          american_dream_score |-> ToColumn(o["american_dream_score"]),
          american_dream_tooltip |->
              ToColumn(IF v = "part_000" THEN o["american_dream_tooltip"]
                       ELSE o["american_dream_tip"]),
          series_id |-> Str(series.id),
          series_title |-> Str(series.title),
          series_data |-> points]
    ELSE [NullColumns EXCEPT
            !.rating = ToColumn(o["rating"]),
            !.summary = ToColumn(o["summary"]),
            !.productivity_insight = ToColumn(o["productivity_insight"]),
            !.american_dream_impact = ToColumn(o["american_dream_impact"])]

\* A stored row: the store assigns id and created_at.
Report(id, columns) == [id |-> id, created_at |-> id, cols |-> columns]

NoReport == Report(0, NullColumns)

(***************************************************************************)
(* Responses of the handler.                                               *)
(***************************************************************************)
NoResponse ==
    [status |-> 0, headers |-> {}, hasBody |-> FALSE, success |-> FALSE,
     error |-> NoMessage, details |-> NoMessage, report |-> NoReport,
     articlesAnalyzed |-> 0, fredSeries |-> ""]

\* new Response(null, { headers: corsHeaders })
PreflightResponse == [NoResponse EXCEPT !.status = 200, !.headers = corsHeaders]

JsonHeaders == corsHeaders \cup {"Content-Type"}

\* FailureResponse without status: 500 (a Response is 200 by default).
FailureResponse_DefaultStatus(message) ==
    [NoResponse EXCEPT
        !.status = 200, !.headers = JsonHeaders, !.hasBody = TRUE,
        !.error = IF message = NoMessage THEN <<"Unknown error occurred">>
                  ELSE message]

\* The outer catch: error.message || 'Unknown error occurred'.
FailureResponse(message) ==
    [NoResponse EXCEPT
        !.status = 500, !.headers = JsonHeaders, !.hasBody = TRUE,
        !.error = IF message = NoMessage THEN <<"Unknown error occurred">>
                  ELSE message]

\* ParseFailureResponse without status: 500 (a Response is 200 by default).
ParseFailureResponse_DefaultStatus(message) ==
    [NoResponse EXCEPT
        !.status = 200, !.headers = JsonHeaders, !.hasBody = TRUE,
        !.error = <<"AI response parsing failed">>, !.details = message]

\* ParseFailureResponse with a fixed text in place of parseError.message.
ParseFailureResponse_FixedDetails(message) ==
    [NoResponse EXCEPT
        !.status = 500, !.headers = JsonHeaders, !.hasBody = TRUE,
        !.error = <<"AI response parsing failed">>,
        !.details = <<"Invalid AI response">>]

\* The inner catch.
ParseFailureResponse(message) ==
    [NoResponse EXCEPT
        !.status = 500, !.headers = JsonHeaders, !.hasBody = TRUE,
        !.error = <<"AI response parsing failed">>, !.details = message]

\* if (error) after the insert.
InsertFailureResponse(message) ==
    [NoResponse EXCEPT
        !.status = 500, !.headers = JsonHeaders, !.hasBody = TRUE,
        !.error = <<"Database insertion failed">>, !.details = message]

SuccessResponse(v, data, articles, series) ==
    [NoResponse EXCEPT
        !.status = 200, !.headers = JsonHeaders, !.hasBody = TRUE,
        !.success = TRUE, !.report = data, !.articlesAnalyzed = Len(articles),
        !.fredSeries = IF HasMacroStep(v) THEN series.title ELSE ""]

\* InsertResponse without if (error).
InsertResponse_IgnoresError(v, result, articles, series) ==
    SuccessResponse(v, result.data, articles, series)

\* The response after the insert has returned { data, error }.
InsertResponse(v, result, articles, series) ==
    IF result.error # NoMessage
    THEN InsertFailureResponse(result.error)
    ELSE SuccessResponse(v, result.data, articles, series)

(***************************************************************************)
(* External calls, as the run issues them.                                 *)
(***************************************************************************)
Call(to) == [to |-> to, prompt |-> << >>, row |-> NullColumns]
ModelCall(prompt) == [Call("openai") EXCEPT !.prompt = prompt]
InsertCall(columns) == [Call("store") EXCEPT !.row = columns]

NoResult == [error |-> NoMessage, data |-> NoReport]

(***************************************************************************)
(* The dashboard: what it reads of a stored report, and the chart.         *)
(* A series_data column that is NULL and one that holds [] both read as    *)
(* the empty sequence; the dashboard treats the two alike.                 *)
(***************************************************************************)
\* Array.isArray(data) && data.every(item => typeof item.date === 'string'
\* && typeof item.value === 'number'); the dates of the model are ordinals.
isSeriesDataArray(data) ==
    \A i \in 1..Len(data) : data[i].date \in Int /\ data[i].value \in Int

\* fetchLatestReport: rawReport.series_data && isSeriesDataArray(...) ?
\* rawReport.series_data : null
FetchedSeries(data) == IF isSeriesDataArray(data) THEN data ELSE << >>

\* The report as fetchLatestReport returns it.
TransformedReport(rawReport) ==
    [rawReport EXCEPT !.cols.series_data = FetchedSeries(@)]

\* GraphicOfDay without the test of seriesData.length.
GraphicOfDay_NoLengthCheck(title, data) ==
    IF ~Truthy(title) THEN "null" ELSE "LineChart"

\* GraphicOfDay: null when there is no data, no point or no title, the card
\* with the line chart otherwise.
GraphicOfDay(title, data) ==
    IF Len(data) = 0 \/ ~Truthy(title) THEN "null" ELSE "LineChart"

(***************************************************************************)
(* State.                                                                  *)
(***************************************************************************)
VARIABLES
    version,         \* the deployed version of the handler
    env,             \* the environment variables that are set
    reports,         \* the reports table, in insertion order
    pc,              \* where each run stands
    method,          \* per run: req.method
    newsResponse,    \* per run: const newsResponse, with its body newsData
    articles,        \* per run: const articles
    selectedSeries,  \* per run: const selectedSeries
    fredResponse,    \* per run: const fredResponse, with its body fredData
    seriesData,      \* per run: const seriesData
    openaiResponse,  \* per run: const openaiResponse, with its body openaiData
    analysis,        \* per run: let analysis, once the try block is through
    result,          \* per run: { data, error } of the insert
    response,        \* per run: the Response returned
    calls,           \* per run: the external calls issued so far, in order
    rowsInserted,    \* per run: rows the store has added for it
    latestReport,    \* the dashboard: useState latestReport
    isLoading,       \* the dashboard: useState isLoading
    toast,           \* the dashboard: the toast shown last
    mount,           \* the dashboard: where loadInitialData stands
    refresh,         \* the dashboard: where handleRefresh stands
    invoked,         \* the dashboard: the run handleRefresh has invoked last
    fetched,         \* the dashboard: { data, error } of the selects
    lastUpdated,     \* the dashboard: useState lastUpdated
    historyVersion,  \* the version of the history page
    macro_snapshots, \* the macro_snapshots table
    reportData,      \* the history page: useState reportData (data)
    macroData,       \* the history page: useState macroData
    loading,         \* the history page: useState loading
    error            \* the history page: useState error

vars ==
    <<version, env, reports, pc, method, newsResponse, articles, selectedSeries,
      fredResponse, seriesData, openaiResponse, analysis, result, response,
      calls, rowsInserted, latestReport, isLoading, toast, mount, refresh,
      invoked, fetched, lastUpdated, historyVersion, macro_snapshots,
      reportData, macroData, loading, error>>

\* The state of the dashboard page.
dashboard ==
    <<latestReport, isLoading, toast, mount, refresh, invoked, fetched,
      lastUpdated>>

\* The state of the history page, with the table only it reads.
history ==
    <<historyVersion, macro_snapshots, reportData, macroData, loading, error>>

NoToast == [title |-> "", variant |-> ""]

NoRows == [error |-> FALSE, data |-> << >>]

\* The text of lastUpdated: '' at first, then a count with its unit.
NoText == [count |-> 0, unit |-> ""]

\* The page at its first render: no report, not loading, the effect that
\* loads the initial data having issued its select.
DashboardInit ==
    /\ latestReport = NoReport
    /\ isLoading = FALSE
    /\ toast = NoToast
    /\ mount = "selecting"
    /\ refresh = "idle"
    /\ invoked = 0
    /\ fetched = [f \in {"mount", "refresh"} |-> NoRows]
    /\ lastUpdated = NoText

HistoryVersions == {"History.tsx", "part_002"}

\* The history page at its first render: no data, loading, no error.
HistoryPageInit ==
    /\ reportData = << >>
    /\ macroData = << >>
    /\ loading = TRUE
    /\ error = ""

\* The history page of the latest version, over an empty macro_snapshots
\* table.
HistoryInit ==
    /\ historyVersion = "part_002"
    /\ macro_snapshots = << >>
    /\ HistoryPageInit

Methods == {"OPTIONS", "POST"}

Init ==
    /\ version \in HandlerVersions
    /\ env \in SUBSET EnvKeys
    /\ reports = << >>
    /\ pc = [r \in Runs |-> "idle"]
    /\ method = [r \in Runs |-> ""]
    /\ newsResponse = [r \in Runs |-> NoNewsResponse]
    /\ articles = [r \in Runs |-> << >>]
    /\ selectedSeries = [r \in Runs |-> NoSeries]
    /\ fredResponse = [r \in Runs |-> NoFredResponse]
    /\ seriesData = [r \in Runs |-> << >>]
    /\ openaiResponse = [r \in Runs |-> NoOpenAIResponse]
    /\ analysis = [r \in Runs |-> EmptyObject]
    /\ result = [r \in Runs |-> NoResult]
    /\ response = [r \in Runs |-> NoResponse]
    /\ calls = [r \in Runs |-> << >>]
    /\ rowsInserted = [r \in Runs |-> 0]
    /\ DashboardInit
    /\ HistoryInit

\* return new Response(...): the run is over.
Respond(r, resp) ==
    /\ response' = [response EXCEPT ![r] = resp]
    /\ pc' = [pc EXCEPT ![r] = "done"]
    /\ UNCHANGED calls

\* Await with a second attempt: the call is issued twice.
Await_Twice(r, call, at) ==
    /\ calls' = [calls EXCEPT ![r] = Append(Append(@, call), call)]
    /\ pc' = [pc EXCEPT ![r] = at]
    /\ UNCHANGED response

\* await fetch(...) or await supabase...insert(...): the call is issued and
\* the run waits for its return.
Await(r, call, at) ==
    /\ calls' = [calls EXCEPT ![r] = Append(@, call)]
    /\ pc' = [pc EXCEPT ![r] = at]
    /\ UNCHANGED response

(***************************************************************************)
(* The handler, one action for each segment between two awaits.            *)
(***************************************************************************)
\* Request with the OPTIONS branch after the environment checks.
Request_ChecksFirst(r, m) ==
    /\ pc[r] = "idle"
    /\ method' = [method EXCEPT ![r] = m]
    /\ IF ConfigError(version, env) # NoMessage
       THEN Respond(r, FailureResponse(ConfigError(version, env)))
       ELSE IF m = "OPTIONS"
       THEN Respond(r, PreflightResponse)
       ELSE Await(r, Call("news"), "awaitNews")
    /\ UNCHANGED <<dashboard, history>>
    /\ UNCHANGED <<version, env, reports, newsResponse, articles, selectedSeries,
                   fredResponse, seriesData, openaiResponse, analysis, result,
                   rowsInserted>>

\* A request arrives: the OPTIONS branch, the environment checks, the news
\* request.
Request(r, m) ==
    /\ pc[r] = "idle"
    /\ method' = [method EXCEPT ![r] = m]
    /\ IF m = "OPTIONS"
       THEN Respond(r, PreflightResponse)
       ELSE IF ConfigError(version, env) # NoMessage
       THEN Respond(r, FailureResponse(ConfigError(version, env)))
       ELSE Await(r, Call("news"), "awaitNews")
    /\ UNCHANGED <<dashboard, history>>
    /\ UNCHANGED <<version, env, reports, newsResponse, articles, selectedSeries,
                   fredResponse, seriesData, openaiResponse, analysis, result,
                   rowsInserted>>

\* The news request returns: status check, article count check, then the
\* series is drawn and requested (part_001: the model request follows at
\* once).
NewsReturns(r, news) ==
    /\ pc[r] = "awaitNews"
    /\ newsResponse' = [newsResponse EXCEPT ![r] = news]
    /\ IF NewsError(news) # NoMessage
       THEN /\ Respond(r, FailureResponse(NewsError(news)))
            /\ UNCHANGED <<articles, selectedSeries>>
       ELSE /\ articles' = [articles EXCEPT ![r] = ArticlesOf(news)]
            /\ IF NoArticles(ArticlesOf(news))
               THEN /\ Respond(r, FailureResponse(<<"No articles found">>))
                    /\ UNCHANGED selectedSeries
               ELSE IF HasMacroStep(version)
               THEN /\ \E i \in 1..Len(FRED_SERIES) :
                          selectedSeries' =
                              [selectedSeries EXCEPT ![r] = FRED_SERIES[i]]
                    /\ Await(r, Call("fred"), "awaitFred")
               ELSE /\ Await(r, ModelCall(articlesText(ArticlesOf(news))),
                             "awaitModel")
                    /\ UNCHANGED selectedSeries
    /\ UNCHANGED <<dashboard, history>>
    /\ UNCHANGED <<version, env, reports, method, fredResponse, seriesData,
                   openaiResponse, analysis, result, rowsInserted>>

\* The series request returns: status check, the series data, the prompt,
\* the model request.
FredReturns(r, fred) ==
    /\ pc[r] = "awaitFred"
    /\ fredResponse' = [fredResponse EXCEPT ![r] = fred]
    /\ IF FredError(fred) # NoMessage
       THEN /\ Respond(r, FailureResponse(FredError(fred)))
            /\ UNCHANGED seriesData
       ELSE /\ seriesData' = [seriesData EXCEPT ![r] =
                   SeriesDataOf(fred.hasObservations, fred.observations)]
            /\ Await(r, ModelCall(articlesText(articles[r])), "awaitModel")
    /\ UNCHANGED <<dashboard, history>>
    /\ UNCHANGED <<version, env, reports, method, newsResponse, articles,
                   selectedSeries, openaiResponse, analysis, result,
                   rowsInserted>>

\* The model request returns: status check, the first choice, the try block
\* (clean, parse, validate), the insert.
ModelReturns(r, openai) ==
    /\ pc[r] = "awaitModel"
    /\ openaiResponse' = [openaiResponse EXCEPT ![r] = openai]
    /\ IF OpenAIError(openai) # NoMessage
       THEN /\ Respond(r, FailureResponse(OpenAIError(openai)))
            /\ UNCHANGED analysis
       ELSE IF ParseError(version, openai.content) # NoMessage
       THEN /\ Respond(r, ParseFailureResponse(ParseError(version, openai.content)))
            /\ UNCHANGED analysis
       ELSE LET parsed == JsonParse(cleanedContent(openai.content.tokens)).obj
            IN /\ analysis' = [analysis EXCEPT ![r] = parsed]
               /\ Await(r, InsertCall(InsertColumns(version, parsed,
                                                    selectedSeries[r],
                                                    seriesData[r])),
                        "awaitInsert")
    /\ UNCHANGED <<dashboard, history>>
    /\ UNCHANGED <<version, env, reports, method, newsResponse, articles,
                   selectedSeries, fredResponse, seriesData, result,
                   rowsInserted>>

\* StoreInsert as a write of the whole table: the row replaces what was
\* there.
StoreInsert_Overwrites(r, accepted) ==
    /\ pc[r] = "awaitInsert"
    /\ LET columns == calls[r][Len(calls[r])].row
           row == Report(Len(reports) + 1, columns)
       IN IF accepted
          THEN /\ reports' = <<row>>
               /\ rowsInserted' = [rowsInserted EXCEPT ![r] = @ + 1]
               /\ result' = [result EXCEPT ![r] = [error |-> NoMessage, data |-> row]]
          ELSE /\ result' = [result EXCEPT ![r] =
                      [error |-> <<"insert rejected">>, data |-> NoReport]]
               /\ UNCHANGED <<reports, rowsInserted>>
    /\ pc' = [pc EXCEPT ![r] = "insertReturned"]
    /\ UNCHANGED <<dashboard, history>>
    /\ UNCHANGED <<version, env, method, newsResponse, articles, selectedSeries,
                   fredResponse, seriesData, openaiResponse, analysis, response,
                   calls>>

\* StoreInsert as an upsert of the latest row.
StoreInsert_Upserts(r, accepted) ==
    /\ pc[r] = "awaitInsert"
    /\ LET columns == calls[r][Len(calls[r])].row
           row == Report(Len(reports) + 1, columns)
       IN IF accepted
          THEN /\ reports' = IF reports = << >> THEN <<row>>
                          ELSE [reports EXCEPT ![Len(reports)] = row]
               /\ rowsInserted' = [rowsInserted EXCEPT ![r] = @ + 1]
               /\ result' = [result EXCEPT ![r] = [error |-> NoMessage, data |-> row]]
          ELSE /\ result' = [result EXCEPT ![r] =
                      [error |-> <<"insert rejected">>, data |-> NoReport]]
               /\ UNCHANGED <<reports, rowsInserted>>
    /\ pc' = [pc EXCEPT ![r] = "insertReturned"]
    /\ UNCHANGED <<dashboard, history>>
    /\ UNCHANGED <<version, env, method, newsResponse, articles, selectedSeries,
                   fredResponse, seriesData, openaiResponse, analysis, response,
                   calls>>

\* The store serves the insert: it adds the row and returns it, or rejects
\* the insert with an error and adds nothing.
StoreInsert(r, accepted) ==
    /\ pc[r] = "awaitInsert"
    /\ LET columns == calls[r][Len(calls[r])].row
           row == Report(Len(reports) + 1, columns)
       IN IF accepted
          THEN /\ reports' = Append(reports, row)
               /\ rowsInserted' = [rowsInserted EXCEPT ![r] = @ + 1]
               /\ result' = [result EXCEPT ![r] = [error |-> NoMessage, data |-> row]]
          ELSE /\ result' = [result EXCEPT ![r] =
                      [error |-> <<"insert rejected">>, data |-> NoReport]]
               /\ UNCHANGED <<reports, rowsInserted>>
    /\ pc' = [pc EXCEPT ![r] = "insertReturned"]
    /\ UNCHANGED <<dashboard, history>>
    /\ UNCHANGED <<version, env, method, newsResponse, articles, selectedSeries,
                   fredResponse, seriesData, openaiResponse, analysis, response,
                   calls>>

\* The insert returns: the storage failure response or the success response.
InsertReturns(r) ==
    /\ pc[r] = "insertReturned"
    /\ Respond(r, InsertResponse(version, result[r], articles[r], selectedSeries[r]))
    /\ UNCHANGED <<dashboard, history>>
    /\ UNCHANGED <<version, env, reports, method, newsResponse, articles,
                   selectedSeries, fredResponse, seriesData, openaiResponse,
                   analysis, result, rowsInserted>>

(***************************************************************************)
(* Spec: one invocation, handled alone, under every environment and every  *)
(* answer of the external sources.  The runs are interchangeable, so Spec  *)
(* follows the first of them.                                              *)
(***************************************************************************)
FirstRun == CHOOSE r \in Runs : \A q \in Runs : r <= q

Step(r) ==
    \/ \E m \in Methods : Request(r, m)
    \/ \E news \in NewsResponses : NewsReturns(r, news)
    \/ \E fred \in FredResponses : FredReturns(r, fred)
    \/ \E openai \in OpenAIResponses[version] : ModelReturns(r, openai)
    \/ \E accepted \in BOOLEAN : StoreInsert(r, accepted)
    \/ InsertReturns(r)

Next == Step(FirstRun)

Spec == Init /\ [][Next]_vars

\* Every external call a run awaits returns: the fetches resolve or reject,
\* the store answers, and the run is resumed.
LiveSpec == Spec /\ WF_vars(Next)

(***************************************************************************)
(* SeriesSpec: one invocation of a version with the macro step, every      *)
(* credential set, the news and the model answering well, and the macro    *)
(* source answering with series of up to MaxObservations observations, in  *)
(* either date order, with sentinels and non-numeric values among them.    *)
(***************************************************************************)
\* Longest series the macro source answers with.
MaxObservations == 80

\* The lengths of the series: around the cap of SeriesPoints valid points,
\* with and without five observations that are not valid.
SeriesLengths ==
    {0, 1, 2, SeriesPoints - 1, SeriesPoints, SeriesPoints + 1,
     SeriesPoints + 5, SeriesPoints + 6, MaxObservations}

\* Where the observations that are not valid stand.
GapPatterns == {"none", "head", "tail", "spread", "text", "all"}

\* The value of the i-th of n observations under a pattern: the sentinel
\* ".", a text that is no number, or a numeral.
ObservationValue(pattern, i, n) ==
    IF \/ pattern = "all"
       \/ pattern = "head" /\ i <= 5
       \/ pattern = "tail" /\ i > n - 5
       \/ pattern = "spread" /\ i % 16 = 0
    THEN "."
    ELSE IF pattern = "text" /\ i % 16 = 8
    THEN "n/a"
    ELSE ToString(i % 10)

SeriesOrders == {"asc", "desc"}

\* n observations, dated 1..n, oldest first or newest first.
SeriesObservations(pattern, order, n) ==
    [i \in 1..n |->
        Observation(IF order = "asc" THEN i ELSE n + 1 - i,
                    ObservationValue(pattern, i, n))]

SeriesFredResponses ==
    {[ok |-> TRUE, status |-> 200, hasObservations |-> TRUE,
      observations |-> SeriesObservations(p, o, n)] :
        p \in GapPatterns, o \in SeriesOrders, n \in SeriesLengths}

SeriesNews ==
    [ok |-> TRUE, status |-> 200, hasArticles |-> TRUE,
     articles |-> <<Article(1, Str("description"))>>]

\* The model answers what the prompt of the version asks for.
PromptedAnswer ==
    [v \in HandlerVersions |->
        [ok |-> TRUE, status |-> 200, hasChoices |-> TRUE,
         content |-> TextContent(<<Token("value", JsonObject(PromptedObject(v)))>>)]]

IdleRuns ==
    /\ reports = << >>
    /\ pc = [r \in Runs |-> "idle"]
    /\ method = [r \in Runs |-> ""]
    /\ newsResponse = [r \in Runs |-> NoNewsResponse]
    /\ articles = [r \in Runs |-> << >>]
    /\ selectedSeries = [r \in Runs |-> NoSeries]
    /\ fredResponse = [r \in Runs |-> NoFredResponse]
    /\ seriesData = [r \in Runs |-> << >>]
    /\ openaiResponse = [r \in Runs |-> NoOpenAIResponse]
    /\ analysis = [r \in Runs |-> EmptyObject]
    /\ result = [r \in Runs |-> NoResult]
    /\ response = [r \in Runs |-> NoResponse]
    /\ calls = [r \in Runs |-> << >>]
    /\ rowsInserted = [r \in Runs |-> 0]
    /\ DashboardInit
    /\ HistoryInit

SeriesInit ==
    /\ version \in {v \in HandlerVersions : HasMacroStep(v)}
    /\ env = EnvKeys
    /\ IdleRuns

SeriesNext ==
    \/ Request(FirstRun, "POST")
    \/ NewsReturns(FirstRun, SeriesNews)
    \/ \E fred \in SeriesFredResponses : FredReturns(FirstRun, fred)
    \/ ModelReturns(FirstRun, PromptedAnswer[version])
    \/ \E accepted \in BOOLEAN : StoreInsert(FirstRun, accepted)
    \/ InsertReturns(FirstRun)

SeriesSpec == SeriesInit /\ [][SeriesNext]_vars

(***************************************************************************)
(* The dashboard page (Index): the initial load, the refresh button, and   *)
(* the selects the store serves for them.                                  *)
(***************************************************************************)
\* .from('reports').select('*').order('created_at', { ascending: false })
\* .limit(1): the row with the greatest created_at, if there is a row.
LatestRows(rows) ==
    IF rows = << >> THEN << >>
    ELSE <<CHOOSE row \in {rows[i] : i \in 1..Len(rows)} :
              \A i \in 1..Len(rows) : rows[i].created_at <= row.created_at>>

\* fetchLatestReport, once the select has returned { data, error }: null on
\* an error and on no row, the transformed first row otherwise.
FetchLatestReport(selected) ==
    IF selected.error THEN NoReport
    ELSE IF Len(selected.data) > 0 THEN TransformedReport(selected.data[1])
    ELSE NoReport

Fetches == {"mount", "refresh"}

\* The store serves a select of fetchLatestReport: the rows, or an error.
StoreSelect(f, ok) ==
    /\ \/ f = "mount" /\ mount = "selecting" /\ mount' = "selected"
                      /\ UNCHANGED refresh
       \/ f = "refresh" /\ refresh = "selecting" /\ refresh' = "selected"
                        /\ UNCHANGED mount
    /\ fetched' = [fetched EXCEPT ![f] =
                      IF ok THEN [error |-> FALSE, data |-> LatestRows(reports)]
                      ELSE [error |-> TRUE, data |-> << >>]]
    /\ UNCHANGED <<latestReport, isLoading, toast, invoked, lastUpdated>>
    /\ UNCHANGED <<version, env, reports, pc, method, newsResponse, articles,
                   selectedSeries, fredResponse, seriesData, openaiResponse,
                   analysis, result, response, calls, rowsInserted>>
    /\ UNCHANGED history

\* The minutes between created_at of the report and the clock of the page
\* when lastUpdated is set.
ElapsedMinutes == {5, 90, 2880}

\* formatTimeAgo, from the minutes elapsed: minutes below an hour, whole
\* hours below a day, whole days otherwise.
formatTimeAgo(diffInMinutes) ==
    IF diffInMinutes < 60 THEN [count |-> diffInMinutes, unit |-> " minutes ago"]
    ELSE IF diffInMinutes < 1440
    THEN [count |-> diffInMinutes \div 60, unit |-> " hours ago"]
    ELSE [count |-> diffInMinutes \div 1440, unit |-> " days ago"]

\* loadInitialData resumes: if (report) { setLatestReport(report);
\* setLastUpdated(formatTimeAgo(report.created_at)) }.
MountReturns ==
    /\ mount = "selected"
    /\ mount' = "done"
    /\ IF FetchLatestReport(fetched["mount"]) # NoReport
       THEN /\ latestReport' = FetchLatestReport(fetched["mount"])
            /\ \E elapsed \in ElapsedMinutes :
                  lastUpdated' = formatTimeAgo(elapsed)
       ELSE UNCHANGED <<latestReport, lastUpdated>>
    /\ UNCHANGED <<isLoading, toast, refresh, invoked, fetched>>
    /\ UNCHANGED <<version, env, reports, pc, method, newsResponse, articles,
                   selectedSeries, fredResponse, seriesData, openaiResponse,
                   analysis, result, response, calls, rowsInserted>>
    /\ UNCHANGED history

\* HandleRefresh with the button never disabled.
HandleRefresh_NotDisabled(r) ==
    /\ pc[r] = "idle"
    /\ isLoading' = TRUE
    /\ refresh' = "invoking"
    /\ invoked' = r
    /\ UNCHANGED <<latestReport, toast, mount, fetched, lastUpdated>>
    /\ UNCHANGED <<version, env, reports, pc, method, newsResponse, articles,
                   selectedSeries, fredResponse, seriesData, openaiResponse,
                   analysis, result, response, calls, rowsInserted>>
    /\ UNCHANGED history

\* The button is clicked (it is disabled while isLoading): handleRefresh
\* sets isLoading and invokes the function; run r is the invocation.
HandleRefresh(r) ==
    /\ ~isLoading
    /\ pc[r] = "idle"
    /\ isLoading' = TRUE
    /\ refresh' = "invoking"
    /\ invoked' = r
    /\ UNCHANGED <<latestReport, toast, mount, fetched, lastUpdated>>
    /\ UNCHANGED <<version, env, reports, pc, method, newsResponse, articles,
                   selectedSeries, fredResponse, seriesData, openaiResponse,
                   analysis, result, response, calls, rowsInserted>>
    /\ UNCHANGED history

UpdatedToast == [title |-> "Economic analysis updated", variant |-> ""]
FailedToast == [title |-> "Analysis failed", variant |-> "destructive"]

\* InvokeReturns with a catch block that clears the report shown.
InvokeReturns_ClearsReport ==
    /\ refresh = "invoking"
    /\ pc[invoked] = "done"
    /\ IF \/ response[invoked].status \notin 200..299
          \/ ~response[invoked].success
       THEN /\ toast' = FailedToast
            /\ isLoading' = FALSE
            /\ refresh' = "idle"
            /\ latestReport' = NoReport
            /\ lastUpdated' = NoText
       ELSE /\ refresh' = "selecting"
            /\ UNCHANGED <<toast, isLoading, latestReport, lastUpdated>>
    /\ UNCHANGED <<mount, invoked, fetched>>
    /\ UNCHANGED <<version, env, reports, pc, method, newsResponse, articles,
                   selectedSeries, fredResponse, seriesData, openaiResponse,
                   analysis, result, response, calls, rowsInserted>>
    /\ UNCHANGED history

\* functions.invoke returns: { data: null, error } for a status outside
\* 2xx, { data: body, error: null } otherwise.  An error or a body without
\* success is thrown and caught (the failure toast, isLoading false); on
\* success fetchLatestReport issues its select.
InvokeReturns ==
    /\ refresh = "invoking"
    /\ pc[invoked] = "done"
    /\ IF \/ response[invoked].status \notin 200..299
          \/ ~response[invoked].success
       THEN /\ toast' = FailedToast
            /\ isLoading' = FALSE
            /\ refresh' = "idle"
       ELSE /\ refresh' = "selecting"
            /\ UNCHANGED <<toast, isLoading>>
    /\ UNCHANGED <<latestReport, mount, invoked, fetched, lastUpdated>>
    /\ UNCHANGED <<version, env, reports, pc, method, newsResponse, articles,
                   selectedSeries, fredResponse, seriesData, openaiResponse,
                   analysis, result, response, calls, rowsInserted>>
    /\ UNCHANGED history

\* functions.invoke returns { data: null, error } without a response of the
\* function (the request or its answer is lost on the way): the error is
\* thrown and caught (the failure toast, isLoading false).
InvokeFails ==
    /\ refresh = "invoking"
    /\ toast' = FailedToast
    /\ isLoading' = FALSE
    /\ refresh' = "idle"
    /\ UNCHANGED <<latestReport, mount, invoked, fetched, lastUpdated>>
    /\ UNCHANGED <<version, env, reports, pc, method, newsResponse, articles,
                   selectedSeries, fredResponse, seriesData, openaiResponse,
                   analysis, result, response, calls, rowsInserted>>
    /\ UNCHANGED history

\* RefreshReturns showing data.report, the row the run has returned.
RefreshReturns_ShowsReturnedRow ==
    /\ refresh = "selected"
    /\ latestReport' = TransformedReport(response[invoked].report)
    /\ \E elapsed \in ElapsedMinutes : lastUpdated' = formatTimeAgo(elapsed)
    /\ toast' = UpdatedToast
    /\ isLoading' = FALSE
    /\ refresh' = "idle"
    /\ UNCHANGED <<mount, invoked, fetched>>
    /\ UNCHANGED <<version, env, reports, pc, method, newsResponse, articles,
                   selectedSeries, fredResponse, seriesData, openaiResponse,
                   analysis, result, response, calls, rowsInserted>>
    /\ UNCHANGED history

\* handleRefresh resumes after fetchLatestReport: if (updatedReport)
\* { setLatestReport(updatedReport); setLastUpdated(...) }, the success
\* toast, isLoading false.
RefreshReturns ==
    /\ refresh = "selected"
    /\ IF FetchLatestReport(fetched["refresh"]) # NoReport
       THEN /\ latestReport' = FetchLatestReport(fetched["refresh"])
            /\ \E elapsed \in ElapsedMinutes :
                  lastUpdated' = formatTimeAgo(elapsed)
       ELSE UNCHANGED <<latestReport, lastUpdated>>
    /\ toast' = UpdatedToast
    /\ isLoading' = FALSE
    /\ refresh' = "idle"
    /\ UNCHANGED <<mount, invoked, fetched>>
    /\ UNCHANGED <<version, env, reports, pc, method, newsResponse, articles,
                   selectedSeries, fredResponse, seriesData, openaiResponse,
                   analysis, result, response, calls, rowsInserted>>
    /\ UNCHANGED history

(***************************************************************************)
(* SystemSpec: the runs of the handler interleaved with one another and    *)
(* with the dashboard page, every credential set.  A run is invoked by the *)
(* page or by another caller.  The sources answer from small sets: one     *)
(* article list, the first SystemSeries series, two series bodies, two     *)
(* valid model answers and one that fails validation; the store accepts    *)
(* or rejects.                                                             *)
(***************************************************************************)
\* The series a run may draw.
SystemSeries == 1

SystemFredResponses ==
    {[ok |-> TRUE, status |-> 200, hasObservations |-> TRUE, observations |-> l] :
        l \in { <<Observation(1, "4")>>,
                <<Observation(1, "4"), Observation(2, "."), Observation(3, "5")>> }}

SystemAnswers ==
    [v \in HandlerVersions |->
        {[ok |-> TRUE, status |-> 200, hasChoices |-> TRUE,
          content |-> TextContent(<<Token("value", JsonObject(o))>>)] :
            o \in {[PromptedObject(v) EXCEPT !["rating"] = Num(n)] : n \in {7, 10, 11}}}]

SystemInit ==
    /\ version \in HandlerVersions
    /\ env = EnvKeys
    /\ IdleRuns

SystemNext ==
    \/ \E r \in Runs : Request(r, "POST")
    \/ \E r \in Runs :
          /\ NewsReturns(r, SeriesNews)
          /\ \/ selectedSeries'[r] = NoSeries
             \/ \E i \in 1..SystemSeries : selectedSeries'[r] = FRED_SERIES[i]
    \/ \E r \in Runs, fred \in SystemFredResponses : FredReturns(r, fred)
    \/ \E r \in Runs, openai \in SystemAnswers[version] : ModelReturns(r, openai)
    \/ \E r \in Runs, accepted \in BOOLEAN : StoreInsert(r, accepted)
    \/ \E r \in Runs : InsertReturns(r)
    \/ \E f \in Fetches, ok \in BOOLEAN : StoreSelect(f, ok)
    \/ MountReturns
    \/ \E r \in Runs : HandleRefresh(r)
    \/ InvokeReturns
    \/ InvokeFails
    \/ RefreshReturns

SystemSpec == SystemInit /\ [][SystemNext]_vars

\* The page goes on whenever it can: a promise handleRefresh awaits that
\* has settled resumes it, and the store answers the select of the refresh.
SystemLiveSpec ==
    /\ SystemSpec
    /\ WF_vars(InvokeReturns)
    /\ WF_vars(\E ok \in BOOLEAN : StoreSelect("refresh", ok))
    /\ WF_vars(RefreshReturns)

(***************************************************************************)
(* ArticleSpec: one invocation with every credential set, the news source  *)
(* answering with 0..MaxArticles articles (the request asks for a page of  *)
(* 25), some of them without a description, the other sources answering   *)
(* well, the store accepting or rejecting.                                 *)
(***************************************************************************)
\* Longest article list the news source answers with (pageSize=25).
MaxArticles == 25

\* Which articles come without a description.
DescriptionPatterns == {"all", "none", "odd", "empty"}

\* The description of the i-th article under a pattern: a text, null, no
\* description field, or the empty text.
ArticleDescription(pattern, i) ==
    IF pattern = "none" THEN Null
    ELSE IF pattern = "odd" /\ i % 2 = 1 THEN Undefined
    ELSE IF pattern = "empty" /\ i % 3 = 0 THEN Str("")
    ELSE Str("description")

\* n articles, titled and dated 1..n in the order of the response.
FetchedArticles(pattern, n) ==
    [i \in 1..n |-> Article(i, ArticleDescription(pattern, i))]

ArticleNews ==
    {[ok |-> TRUE, status |-> 200, hasArticles |-> TRUE,
      articles |-> FetchedArticles(p, n)] :
        p \in DescriptionPatterns, n \in 0..MaxArticles}

ArticleInit ==
    /\ version \in HandlerVersions
    /\ env = EnvKeys
    /\ IdleRuns

ArticleNext ==
    \/ Request(FirstRun, "POST")
    \/ \E news \in ArticleNews :
          /\ NewsReturns(FirstRun, news)
          /\ \/ selectedSeries'[FirstRun] = NoSeries
             \/ \E i \in 1..SystemSeries :
                   selectedSeries'[FirstRun] = FRED_SERIES[i]
    \/ \E fred \in SystemFredResponses : FredReturns(FirstRun, fred)
    \/ ModelReturns(FirstRun, PromptedAnswer[version])
    \/ \E accepted \in BOOLEAN : StoreInsert(FirstRun, accepted)
    \/ InsertReturns(FirstRun)

ArticleSpec == ArticleInit /\ [][ArticleNext]_vars

(***************************************************************************)
(* FenceSpec: the runs of the handler with every credential set, the news  *)
(* and the macro source answering well, and the model answering with one   *)
(* JSON object, bare or inside a json code fence, in several layouts of    *)
(* the fence and of the line ends around it.                               *)
(***************************************************************************)
FenceLayouts ==
    { <<"value">>,
      <<"fence", "json", "newline", "value", "newline", "fence">>,
      <<"fence", "json", "value", "fence">>,
      <<"fence", "json", "newline", "newline", "value", "fence", "newline">>,
      <<"newline", "fence", "json", "newline", "value", "newline", "newline",
        "fence">> }

\* The objects of the answers: what the prompt asks for, the same with a
\* rating out of bounds, the same without a summary.
FenceObjects ==
    [v \in HandlerVersions |->
        {PromptedObject(v),
         [PromptedObject(v) EXCEPT !["rating"] = Num(11)],
         [PromptedObject(v) EXCEPT !["summary"] = Undefined]}]

FenceAnswers ==
    [v \in HandlerVersions |->
        {[ok |-> TRUE, status |-> 200, hasChoices |-> TRUE,
          content |-> TextContent(Fill(layout, JsonObject(o)))] :
            layout \in FenceLayouts, o \in FenceObjects[v]}]

FenceFred ==
    [ok |-> TRUE, status |-> 200, hasObservations |-> TRUE,
     observations |-> <<Observation(1, "4")>>]

FenceInit ==
    /\ version \in HandlerVersions
    /\ env = EnvKeys
    /\ IdleRuns

FenceNext ==
    \/ \E r \in Runs : Request(r, "POST")
    \/ \E r \in Runs :
          /\ NewsReturns(r, SeriesNews)
          /\ \/ selectedSeries'[r] = NoSeries
             \/ \E i \in 1..SystemSeries : selectedSeries'[r] = FRED_SERIES[i]
    \/ \E r \in Runs : FredReturns(r, FenceFred)
    \/ \E r \in Runs, openai \in FenceAnswers[version] : ModelReturns(r, openai)
    \/ \E r \in Runs, accepted \in BOOLEAN : StoreInsert(r, accepted)
    \/ \E r \in Runs : InsertReturns(r)

FenceSpec == FenceInit /\ [][FenceNext]_vars

(***************************************************************************)
(* The history page (History): the fetch of the samples, and what the page *)
(* renders from them: the deltas, their colours, the points of the charts. *)
(***************************************************************************)
\* The instants of a day the model tells apart.
TicksPerDay == 2

\* The day of '2025-01-01', the day before it being day 0.
BaselineDay == 1

\* Most rows of a table the page reads.
MaxSamples == 3

\* A timestamp: the instants since day 0 began.
Instant(day, tick) == day * TicksPerDay + tick

\* format(new Date(timestamp), 'yyyy-MM-dd'): the calendar day.
DayOf(timestamp) == timestamp \div TicksPerDay

\* new Date('2025-01-01')
BaselineDate == Instant(BaselineDay, 0)

\* created_at of the rows: the last instant before the baseline, the
\* baseline, the last instant of its day.
HistoryInstants ==
    {Instant(BaselineDay - 1, TicksPerDay - 1), Instant(BaselineDay, 0),
     Instant(BaselineDay, TicksPerDay - 1)}

\* The columns of the rows the page reads: a row of the first schema
\* without scores, and two rows with them.
HistoryColumns ==
    {[NullColumns EXCEPT !.rating = Num(3)],
     [NullColumns EXCEPT !.rating = Num(7), !.prod_labor_score = Num(50),
                         !.american_dream_score = Num(0)],
     [NullColumns EXCEPT !.rating = Num(7), !.prod_labor_score = Num(40),
                         !.american_dream_score = Num(60)]}

\* The reports tables of up to max rows, in any order of insertion.
HistoryTables(max) ==
    UNION {{[i \in 1..n |-> [Report(i, c[i]) EXCEPT !.created_at = at[i]]] :
               c \in [1..n -> HistoryColumns], at \in [1..n -> HistoryInstants]} :
           n \in 0..max}

\* snapshot_date of a macro snapshot: a day.
SnapshotDates == {Instant(BaselineDay - 1, 0), Instant(BaselineDay, 0)}

MacroValues ==
    {[unrate |-> Num(5), median_income |-> Num(70), gini_index |-> Num(39)],
     [unrate |-> Num(4), median_income |-> Num(60), gini_index |-> Num(41)],
     [unrate |-> Null, median_income |-> Num(80), gini_index |-> Null]}

MacroSnapshot(date, values) ==
    [snapshot_date |-> date, unrate |-> values.unrate,
     median_income |-> values.median_income, gini_index |-> values.gini_index]

\* The macro_snapshots tables of up to max rows.
MacroTables(max) ==
    UNION {{[i \in 1..n |-> MacroSnapshot(at[i], m[i])] :
               m \in [1..n -> MacroValues], at \in [1..n -> SnapshotDates]} :
           n \in 0..max}

\* .select('created_at, rating, prod_labor_score, american_dream_score')
ReportSample(row) ==
    [created_at |-> row.created_at, rating |-> row.cols.rating,
     prod_labor_score |-> row.cols.prod_labor_score,
     american_dream_score |-> row.cols.american_dream_score]

\* .order(dateKey, { ascending: true }): the rows in an order in which the
\* dates do not go down; rows of one date come in any order.
Ordered(rows, dateKey) ==
    {[i \in 1..Len(rows) |-> rows[p[i]]] :
        p \in {q \in [1..Len(rows) -> 1..Len(rows)] :
                  /\ \A i, j \in 1..Len(rows) : i # j => q[i] # q[j]
                  /\ \A i, j \in 1..Len(rows) :
                        i < j => rows[q[i]][dateKey] <= rows[q[j]][dateKey]}}

\* fetchData resumes after the selects have returned: an error of the
\* reports select is shown, an error of the macro select is passed over;
\* the rows become the state of the page, loading ends.
HistoryFetchReturns(reportsError, macrosError) ==
    /\ loading
    /\ loading' = FALSE
    /\ IF reportsError
       THEN /\ error' = "reportsError.message"
            /\ UNCHANGED <<reportData, macroData>>
       ELSE /\ reportData' \in
                  Ordered([i \in 1..Len(reports) |-> ReportSample(reports[i])],
                          "created_at")
            /\ IF historyVersion = "part_002" /\ ~macrosError
               THEN macroData' \in Ordered(macro_snapshots, "snapshot_date")
               ELSE macroData' = << >>
            /\ UNCHANGED error
    /\ UNCHANGED <<historyVersion, macro_snapshots>>
    /\ UNCHANGED dashboard
    /\ UNCHANGED <<version, env, reports, pc, method, newsResponse, articles,
                   selectedSeries, fredResponse, seriesData, openaiResponse,
                   analysis, result, response, calls, rowsInserted>>

\* A select rejects: the catch block of fetchData.
HistoryFetchRejects ==
    /\ loading
    /\ loading' = FALSE
    /\ error' = "Failed to fetch data"
    /\ UNCHANGED <<historyVersion, macro_snapshots, reportData, macroData>>
    /\ UNCHANGED dashboard
    /\ UNCHANGED <<version, env, reports, pc, method, newsResponse, articles,
                   selectedSeries, fredResponse, seriesData, openaiResponse,
                   analysis, result, response, calls, rowsInserted>>

\* The global isNaN: Number(x) is NaN.
isNaN(x) ==
    \/ x.type = "undefined"
    \/ x = NaN
    \/ x.type = "string" /\ x.str # "" /\ ParseFloat(x.str) = NaN

\* b - a
Minus(b, a) ==
    IF a.type = "number" /\ b.type = "number" /\ a # NaN /\ b # NaN
    THEN Num(b.num - a.num)
    ELSE NaN

\* delta with the arguments the other way round.
delta_Reversed(v, a, b) ==
    IF a \in {Null, Undefined} \/ b \in {Null, Undefined} THEN Null
    ELSE IF v = "part_002" /\ (isNaN(a) \/ isNaN(b)) THEN Null
    ELSE Minus(a, b)

\* delta: null when a or b is null or undefined (part_002: or not a number),
\* b - a otherwise.
delta(v, a, b) ==
    IF a \in {Null, Undefined} \/ b \in {Null, Undefined} THEN Null
    ELSE IF v = "part_002" /\ (isNaN(a) \/ isNaN(b)) THEN Null
    ELSE Minus(b, a)

\* data.find(r => new Date(r[dateKey]) >= new Date('2025-01-01')): the first
\* such item, as a list of one item, or undefined, as the empty list.
Find(data, dateKey) ==
    LET hits == {i \in 1..Len(data) : data[i][dateKey] >= BaselineDate}
    IN IF hits = {} THEN << >>
       ELSE <<data[CHOOSE i \in hits : \A j \in hits : i <= j]>>

\* data[i - 1], undefined out of the list.
At(data, i) == IF i \in 1..Len(data) THEN <<data[i]>> ELSE << >>

\* item?.key
Prop(item, key) == IF item = << >> THEN Undefined ELSE item[1][key]

\* const baseline: History.tsx has the find alone, part_002 falls back to
\* the first item.
Baseline(v, data, dateKey) ==
    IF v = "part_002" /\ Find(data, dateKey) = << >> THEN At(data, 1)
    ELSE Find(data, dateKey)

\* const latest = data[data.length - 1]
Latest(data) == At(data, Len(data))

ReportMetrics == {"rating", "prod_labor_score", "american_dream_score"}
MacroMetrics == {"unrate", "median_income", "gini_index"}

\* The delta cards of the page: the metric and isPositiveGood of each.
DeltaCards ==
    [v \in HistoryVersions |->
        {[metric |-> m, isPositiveGood |-> TRUE] : m \in ReportMetrics}
        \cup IF v = "part_002"
             THEN {[metric |-> "unrate", isPositiveGood |-> FALSE],
                   [metric |-> "median_income", isPositiveGood |-> TRUE],
                   [metric |-> "gini_index", isPositiveGood |-> FALSE]}
             ELSE {}]

\* The state and the date key a metric is read from.
DataOf(metric) == IF metric \in ReportMetrics THEN reportData ELSE macroData
DateKeyOf(metric) == IF metric \in ReportMetrics THEN "created_at" ELSE "snapshot_date"

\* deltaValue of the card of a metric.
deltaValue(metric) ==
    delta(historyVersion,
          Prop(Baseline(historyVersion, DataOf(metric), DateKeyOf(metric)), metric),
          Prop(Latest(DataOf(metric)), metric))

\* getDeltaColor of History.tsx in every card: green for a rise.
getDeltaColor_RiseIsGood(v, isPositiveGood, d) ==
    IF d = Null \/ d = Num(0) THEN "text-gray-600"
    ELSE IF d.num > 0 THEN "text-green-600" ELSE "text-red-600"

\* getDeltaColor: History.tsx has no isPositiveGood.
getDeltaColor(v, isPositiveGood, d) ==
    IF d = Null \/ d = Num(0) THEN "text-gray-600"
    ELSE LET isGood == IF v = "part_002" /\ ~isPositiveGood
                       THEN d # NaN /\ d.num < 0
                       ELSE d # NaN /\ d.num > 0
         IN IF isGood THEN "text-green-600" ELSE "text-red-600"

\* The point of a record in a chart.
ChartPoint(item, key, dateKey) ==
    [date |-> DayOf(item[dateKey]), value |-> item[key],
     fullDate |-> item[dateKey], dateStr |-> DayOf(item[dateKey])]

\* .filter(item => item[key] !== null && !isNaN(item[key]))
RECURSIVE Filter(_, _)
Filter(data, key) ==
    IF data = << >> THEN << >>
    ELSE IF Head(data)[key] # Null /\ ~isNaN(Head(data)[key])
    THEN <<Head(data)>> \o Filter(Tail(data), key)
    ELSE Filter(Tail(data), key)

\* The reduce keeping the first record of each day.
RECURSIVE GroupByDate_KeepsFirst(_, _, _, _)
GroupByDate_KeepsFirst(acc, data, key, dateKey) ==
    IF data = << >> THEN acc
    ELSE LET item == Head(data)
             same == {i \in 1..Len(acc) : acc[i].dateStr = DayOf(item[dateKey])}
         IN GroupByDate_KeepsFirst(
                IF same = {} THEN Append(acc, ChartPoint(item, key, dateKey))
                ELSE acc,
                Tail(data), key, dateKey)

\* .reduce(...): groupedByDate, its values in the order the days came in; a
\* record takes the place of the record of its day when it is later.
RECURSIVE GroupByDate(_, _, _, _)
GroupByDate(acc, data, key, dateKey) ==
    IF data = << >> THEN acc
    ELSE LET item == Head(data)
             same == {i \in 1..Len(acc) : acc[i].dateStr = DayOf(item[dateKey])}
         IN GroupByDate(
                IF same = {} THEN Append(acc, ChartPoint(item, key, dateKey))
                ELSE LET i == CHOOSE i \in same : TRUE
                     IN IF item[dateKey] > acc[i].fullDate
                        THEN [acc EXCEPT ![i] = ChartPoint(item, key, dateKey)]
                        ELSE acc,
                Tail(data), key, dateKey)

\* .sort((a, b) => a.fullDate - b.fullDate): a stable sort.
RECURSIVE SortByFullDate(_)
SortByFullDate(points) ==
    IF points = << >> THEN << >>
    ELSE LET sorted == SortByFullDate(SubSeq(points, 1, Len(points) - 1))
             last == points[Len(points)]
             before == {i \in 1..Len(sorted) : sorted[i].fullDate <= last.fullDate}
         IN SubSeq(sorted, 1, Cardinality(before)) \o <<last>>
            \o SubSeq(sorted, Cardinality(before) + 1, Len(sorted))

\* formatChartData of part_002.
formatChartData(data, key, dateKey) ==
    SortByFullDate(GroupByDate(<< >>, Filter(data, key), key, dateKey))

(***************************************************************************)
(* HistorySpec: the history page of either version opened over a reports   *)
(* table or a macro_snapshots table of up to MaxSamples rows, dated around *)
(* the baseline, some of them on one day, some without a value; the        *)
(* selects return rows, return an error, or reject.                        *)
(***************************************************************************)
HistorySpecInit ==
    /\ version = "index.ts"
    /\ env = EnvKeys
    /\ \/ reports \in HistoryTables(MaxSamples) /\ macro_snapshots = << >>
       \/ reports = << >> /\ macro_snapshots \in MacroTables(MaxSamples)
    /\ pc = [r \in Runs |-> "idle"]
    /\ method = [r \in Runs |-> ""]
    /\ newsResponse = [r \in Runs |-> NoNewsResponse]
    /\ articles = [r \in Runs |-> << >>]
    /\ selectedSeries = [r \in Runs |-> NoSeries]
    /\ fredResponse = [r \in Runs |-> NoFredResponse]
    /\ seriesData = [r \in Runs |-> << >>]
    /\ openaiResponse = [r \in Runs |-> NoOpenAIResponse]
    /\ analysis = [r \in Runs |-> EmptyObject]
    /\ result = [r \in Runs |-> NoResult]
    /\ response = [r \in Runs |-> NoResponse]
    /\ calls = [r \in Runs |-> << >>]
    /\ rowsInserted = [r \in Runs |-> 0]
    /\ DashboardInit
    /\ historyVersion \in HistoryVersions
    /\ HistoryPageInit

HistoryNext ==
    \/ \E reportsError, macrosError \in BOOLEAN :
          HistoryFetchReturns(reportsError, macrosError)
    \/ HistoryFetchRejects

HistorySpec == HistorySpecInit /\ [][HistoryNext]_vars

(***************************************************************************)
(* Vocabulary of the properties.                                           *)
(***************************************************************************)
\* A pipeline run: a request other than OPTIONS has arrived.
IsRun(r) == method[r] \notin {"", "OPTIONS"}

Returned(r) == pc[r] = "done"

Issued(r, to) == \E i \in 1..Len(calls[r]) : calls[r][i].to = to

RECURSIVE RowsInsertedBy(_)
RowsInsertedBy(rs) ==
    IF rs = {} THEN 0
    ELSE LET r == CHOOSE q \in rs : TRUE
         IN rowsInserted[r] + RowsInsertedBy(rs \ {r})

\* Run r has added no row: the table holds what the other runs added.
NoRowOf(r) ==
    /\ rowsInserted[r] = 0
    /\ Len(reports) = RowsInsertedBy(Runs \ {r})

\* A number of the closed range [lo, hi].
InRange(x, lo, hi) == x.type = "number" /\ x # NaN /\ lo <= x.num /\ x.num <= hi

\* A value that is there and is not the empty text.
NonEmpty(x) == x.type \notin {"undefined", "null"} /\ x # Str("")

ScoreKeys == {"prod_labor_score", "american_dream_score"}

\* The stated domain of a model output under the schema of version v: every
\* key of the schema there and not empty, rating in [1,10], scores in
\* [0,100].
InStatedDomain(v, o) ==
    /\ \A k \in PromptKeys(v) : NonEmpty(o[k])
    /\ InRange(o["rating"], 1, 10)
    /\ \A k \in PromptKeys(v) \cap ScoreKeys : InRange(o[k], 0, 100)

\* The model has answered run r with a text.
AnsweredText(r) ==
    /\ openaiResponse[r].ok
    /\ openaiResponse[r].hasChoices
    /\ openaiResponse[r].content.type = "string"

rawContent(r) == openaiResponse[r].content.tokens

\* The model has answered run r with a text that holds, fences apart, one
\* JSON object.
AnsweredObject(r) ==
    /\ AnsweredText(r)
    /\ JsonParses(cleanedContent(rawContent(r)))
    /\ JsonParse(cleanedContent(rawContent(r))).json = "object"

answeredObject(r) == JsonParse(cleanedContent(rawContent(r))).obj

\* The response of a parse or validation failure.
IsParseFailure(resp) ==
    /\ resp.status = 500
    /\ resp.hasBody
    /\ ~resp.success
    /\ resp.error = <<"AI response parsing failed">>
    /\ resp.details # NoMessage

\* Any failure response.
IsFailure(resp) ==
    /\ resp.status = 500
    /\ resp.hasBody
    /\ ~resp.success
    /\ resp.error # NoMessage

(***************************************************************************)
(* Properties.                                                             *)
(***************************************************************************)
\* C1: a run that returns success:true has added exactly one row to the
\* reports table, a run that returns a failure response has added none, and
\* an insert is issued only for an analysis that has passed validation.
C1_OneWriteOnSuccessNoneOnFailure ==
    \A r \in Runs :
        /\ (IsRun(r) /\ Returned(r) /\ response[r].success) => rowsInserted[r] = 1
        /\ (IsRun(r) /\ Returned(r) /\ ~response[r].success) => rowsInserted[r] = 0
        /\ rowsInserted[r] > 0 => Issued(r, "store")
        /\ Issued(r, "store") =>
              AnsweredObject(r) /\ InStatedDomain(version, analysis[r])

C1_Witness ==
    \E r \in Runs :
        IsRun(r) /\ Returned(r) /\ response[r].success /\ rowsInserted[r] = 1

\* C2: every row of the reports table has a numeric rating in [1,10] and,
\* where they are not NULL, numeric scores in [0,100].
C2_StoredValuesInRange ==
    \A i \in 1..Len(reports) :
        LET c == reports[i].cols
        IN /\ InRange(c.rating, 1, 10)
           /\ c.prod_labor_score # Null => InRange(c.prod_labor_score, 0, 100)
           /\ c.american_dream_score # Null => InRange(c.american_dream_score, 0, 100)

C2_Witness ==
    \E i \in 1..Len(reports) :
        /\ reports[i].cols.rating = Num(10)
        /\ reports[i].cols.prod_labor_score = Num(50)

\* C3: when the model's text is no JSON even with the fence markers
\* stripped, the run returns status 500 with success:false, error "AI
\* response parsing failed" and the message as details, issues no insert,
\* and the table is as it was.
C3_UnparseableAnswerFails ==
    \A r \in Runs :
        (AnsweredText(r) /\ ~JsonParses(cleanedContent(rawContent(r)))) =>
            /\ Returned(r)
            /\ IsParseFailure(response[r])
            /\ ~Issued(r, "store")
            /\ NoRowOf(r)

C3_Witness ==
    \E r \in Runs :
        /\ AnsweredText(r)
        /\ ~JsonParses(cleanedContent(rawContent(r)))
        /\ cleanedContent(rawContent(r)) # rawContent(r)
        /\ Returned(r)

\* C4: when the parsed object lacks a key of the version's schema, or its
\* rating is no number in [1,10], or a score of the schema is no number in
\* [0,100], the run returns the parse failure response with status 500 and
\* issues no insert, and the table is as it was.
C4_InvalidAnswerFails ==
    \A r \in Runs :
        (/\ AnsweredObject(r)
         /\ \/ \E k \in PromptKeys(version) : answeredObject(r)[k] = Undefined
            \/ ~InRange(answeredObject(r)["rating"], 1, 10)
            \/ \E k \in PromptKeys(version) \cap ScoreKeys :
                  ~InRange(answeredObject(r)[k], 0, 100)) =>
            /\ Returned(r)
            /\ IsParseFailure(response[r])
            /\ ~Issued(r, "store")
            /\ NoRowOf(r)

C4_Witness ==
    \E r \in Runs :
        /\ AnsweredObject(r)
        /\ answeredObject(r)["rating"] = Num(11)
        /\ Returned(r)
        /\ response[r].details = <<"Rating must be a number between 1 and 10">>

\* C5: an answer in the stated domain (every key of the schema there,
\* rating in [1,10], scores in [0,100], 0 included) passes validation: the
\* run goes on to the insert.
C5_StatedDomainAccepted ==
    \A r \in Runs :
        (AnsweredObject(r) /\ InStatedDomain(version, answeredObject(r))) =>
            Issued(r, "store")

\* The keys of the latest model output schema.
LatestSchemaKeys ==
    {"rating", "summary", "prod_labor_score", "prod_labor_tip",
     "american_dream_score", "american_dream_tooltip"}

\* An object that matches the latest schema exactly, with values in range.
MatchesLatestSchema(o) ==
    /\ \A k \in AnalysisKeys \ LatestSchemaKeys : o[k] = Undefined
    /\ \A k \in LatestSchemaKeys : NonEmpty(o[k])
    /\ InRange(o["rating"], 1, 10)
    /\ \A k \in ScoreKeys : InRange(o[k], 0, 100)

\* The run has issued an insert whose american_dream_tooltip is the model's.
InsertsTooltipOf(r, o) ==
    \E i \in 1..Len(calls[r]) :
        /\ calls[r][i].to = "store"
        /\ calls[r][i].row.american_dream_tooltip = o["american_dream_tooltip"]

\* C6, as stated: in index.ts an answer that matches the latest schema is
\* accepted, and the one row stored for it has the model's
\* american_dream_tooltip.
C6_IndexAcceptsLatestSchema ==
    \A r \in Runs :
        (/\ version = "index.ts"
         /\ AnsweredObject(r)
         /\ MatchesLatestSchema(answeredObject(r))) =>
            /\ InsertsTooltipOf(r, answeredObject(r))
            /\ (Returned(r) /\ response[r].success) =>
                  /\ rowsInserted[r] = 1
                  /\ response[r].report.cols.american_dream_tooltip
                        = answeredObject(r)["american_dream_tooltip"]

\* C6, amended: the version with the latest schema (part_000) accepts an
\* answer that matches the latest schema with scores other than 0, and the
\* one row stored for it has the model's american_dream_tooltip; it rejects
\* the answer when a score is 0; index.ts, which asks for
\* productivity_insight, american_dream_impact and american_dream_tip as
\* well, rejects every such answer for its missing fields.
C6_LatestVersionAcceptsLatestSchema ==
    \A r \in Runs :
        (AnsweredObject(r) /\ MatchesLatestSchema(answeredObject(r))) =>
            /\ (/\ version = "part_000"
                /\ \A k \in ScoreKeys : answeredObject(r)[k] # Num(0)) =>
                  /\ InsertsTooltipOf(r, answeredObject(r))
                  /\ (Returned(r) /\ response[r].success) =>
                        /\ rowsInserted[r] = 1
                        /\ response[r].report \in {reports[i] : i \in 1..Len(reports)}
                        /\ response[r].report.cols.american_dream_tooltip
                              = answeredObject(r)["american_dream_tooltip"]
            /\ (\/ version = "index.ts"
                \/ /\ version = "part_000"
                   /\ \E k \in ScoreKeys : answeredObject(r)[k] = Num(0)) =>
                  /\ Returned(r)
                  /\ IsParseFailure(response[r])
                  /\ response[r].details = <<"Missing required fields in AI response">>
                  /\ ~Issued(r, "store")

C6_Witness ==
    \E r \in Runs :
        /\ version = "part_000"
        /\ AnsweredObject(r)
        /\ MatchesLatestSchema(answeredObject(r))
        /\ Returned(r)
        /\ response[r].success
        /\ response[r].report.cols.american_dream_tooltip
              = Str("american_dream_tooltip")

\* C7: when the news source returns no article (an empty list, or a body
\* without the articles key), the run fails with "No articles found" and
\* has called neither the macro source nor the model nor the store.
C7_NoArticlesStopsRun ==
    \A r \in Runs :
        (/\ newsResponse[r].ok
         /\ ~newsResponse[r].hasArticles \/ newsResponse[r].articles = << >>) =>
            /\ Returned(r)
            /\ IsFailure(response[r])
            /\ response[r].error = <<"No articles found">>
            /\ calls[r] = <<Call("news")>>

C7_Witness ==
    \E r \in Runs :
        newsResponse[r].ok /\ ~newsResponse[r].hasArticles /\ Returned(r)

\* The credentials a version needs: part_001 has no macro step and needs
\* no FRED_API_KEY.
RequiredCredentials(v) ==
    IF v = "part_001" THEN EnvKeys \ {"FRED_API_KEY"} ELSE EnvKeys

MissingCredentials == RequiredCredentials(version) \ env

\* C8: when a required credential is absent, the run returns a failure
\* response and has made no call to the news, macro, model or store
\* endpoints.
C8_MissingCredentialAbortsBeforeCalls ==
    \A r \in Runs :
        (IsRun(r) /\ MissingCredentials # {}) =>
            /\ Returned(r)
            /\ IsFailure(response[r])
            /\ calls[r] = << >>

C8_Witness ==
    \E r \in Runs :
        /\ IsRun(r)
        /\ version = "index.ts"
        /\ MissingCredentials = {"FRED_API_KEY"}
        /\ Returned(r)

\* C9, as stated: the error message of a run that lacks a credential names
\* a key that is absent.
C9_ErrorNamesMissingKey ==
    \A r \in Runs :
        (IsRun(r) /\ Returned(r) /\ MissingCredentials # {}) =>
            \E k \in MissingCredentials : Mentions(response[r].error, k)

SupabaseKeys == {"SUPABASE_URL", "SUPABASE_SERVICE_ROLE_KEY"}

\* The keys checked one by one, in the order of the checks.
CheckedKeys == <<"NEWS_API_KEY", "OPENAI_API_KEY", "FRED_API_KEY">>

FirstMissingKey ==
    CheckedKeys[CHOOSE i \in 1..Len(CheckedKeys) :
                    /\ CheckedKeys[i] \in MissingCredentials
                    /\ \A j \in 1..(i - 1) : CheckedKeys[j] \notin MissingCredentials]

\* C9, amended: with both Supabase keys present, the error message names
\* the first absent key in the order NEWS_API_KEY, OPENAI_API_KEY,
\* FRED_API_KEY and no other key; with SUPABASE_URL or
\* SUPABASE_SERVICE_ROLE_KEY absent the message is "Supabase configuration
\* missing", which names no key and is the same for both.
C9_ErrorNamesKeyExceptSupabase ==
    \A r \in Runs :
        (IsRun(r) /\ Returned(r) /\ MissingCredentials # {}) =>
            IF MissingCredentials \cap SupabaseKeys = {}
            THEN \A k \in EnvKeys :
                    Mentions(response[r].error, k) <=> k = FirstMissingKey
            ELSE /\ response[r].error = <<"Supabase", " configuration missing">>
                 /\ \A k \in EnvKeys : ~Mentions(response[r].error, k)

C9_Witness ==
    \E r \in Runs :
        /\ IsRun(r)
        /\ Returned(r)
        /\ MissingCredentials = {"NEWS_API_KEY", "OPENAI_API_KEY"}
        /\ Mentions(response[r].error, "NEWS_API_KEY")

\* C10: when the macro source answers with a status that is no success, the
\* run returns a failure whose message carries the status code, and has
\* issued neither the model request nor an insert.
C10_FredStatusIsFatal ==
    \A r \in Runs :
        (fredResponse[r].status # 0 /\ ~fredResponse[r].ok) =>
            /\ Returned(r)
            /\ IsFailure(response[r])
            /\ Mentions(response[r].error, ToString(fredResponse[r].status))
            /\ ~Issued(r, "openai")
            /\ ~Issued(r, "store")
            /\ NoRowOf(r)

C10_Witness ==
    \E r \in Runs : fredResponse[r].status = 503 /\ Returned(r)

\* An observation the series keeps, told by its text alone: not the
\* sentinel, and a numeral.
NumeralTexts == {ToString(n) : n \in 0..9}

IsValidObservation(obs) == obs.value # "." /\ obs.value \in NumeralTexts

\* The macro source has answered run r with a success status.
FredAnswered(r) == fredResponse[r].ok

\* The answer holds no valid observation: the list is absent, is empty, or
\* holds sentinels and non-numeric values only.
NoValidObservation(fred) ==
    \/ ~fred.hasObservations
    \/ \A i \in 1..Len(fred.observations) :
          ~IsValidObservation(fred.observations[i])

\* The row of the insert run r has issued.
InsertedColumns(r) == calls[r][Len(calls[r])].row

StoredRows == {reports[i] : i \in 1..Len(reports)}

\* C11: when the macro source answers with a success status and no valid
\* observation, the run goes on to the model request; an answer that passes
\* validation is inserted with an empty series_data; the row of a successful
\* run is the one row it added, its series_data is empty, and the dashboard
\* renders no chart for it.
C11_EmptySeriesIsNotFatal ==
    \A r \in Runs :
        (FredAnswered(r) /\ NoValidObservation(fredResponse[r])) =>
            /\ Issued(r, "openai")
            /\ (pc[r] = "awaitModel") \/ openaiResponse[r] # NoOpenAIResponse
            /\ (AnsweredObject(r) /\ ParseError(version, openaiResponse[r].content) = NoMessage) =>
                  /\ Issued(r, "store")
                  /\ InsertedColumns(r).series_data = << >>
            /\ (Returned(r) /\ response[r].success) =>
                  /\ rowsInserted[r] = 1
                  /\ response[r].report \in StoredRows
                  /\ response[r].report.cols.series_data = << >>
                  /\ GraphicOfDay(response[r].report.cols.series_title,
                                  TransformedReport(response[r].report).cols.series_data)
                        = "null"

C11_Witness ==
    \E r \in Runs :
        /\ FredAnswered(r)
        /\ fredResponse[r].hasObservations
        /\ fredResponse[r].observations # << >>
        /\ NoValidObservation(fredResponse[r])
        /\ Returned(r)
        /\ response[r].success
        /\ response[r].report.cols.series_data = << >>

\* The number a valid observation parses to.
NumberOf(text) == CHOOSE n \in 0..9 : ToString(n) = text

\* The last Min(SeriesPoints, k) of the k valid observations of a list, in
\* the order of the list, told by counting: the j-th point kept is the valid
\* observation with k - kept + j valid observations up to and including it.
IsLastValidPoints(data, observations) ==
    LET n == Len(observations)
        valid == {i \in 1..n : IsValidObservation(observations[i])}
        k == Cardinality(valid)
        kept == IF k < 60 THEN k ELSE 60
        rank == [i \in 1..n |-> Cardinality({x \in valid : x <= i})]
    IN /\ Len(data) = kept
       /\ \A j \in 1..kept :
             \E i \in valid :
                /\ rank[i] = k - kept + j
                /\ data[j].date = observations[i].date
                /\ data[j].value = NumberOf(observations[i].value)

\* C12: the series_data a run inserts, and the series_data of the row stored
\* for it, is the last min(60, k) of the k valid observations of the series
\* the macro source returned, in the order received: no sentinel, no
\* non-numeric value, at most 60 points.
C12_SeriesIsLastValidPoints ==
    \A r \in Runs :
        /\ Issued(r, "store") =>
              /\ IsLastValidPoints(InsertedColumns(r).series_data,
                                   fredResponse[r].observations)
              /\ Len(InsertedColumns(r).series_data) <= 60
              /\ \A j \in 1..Len(InsertedColumns(r).series_data) :
                    InsertedColumns(r).series_data[j].value \in 0..9
        /\ (Returned(r) /\ response[r].success) =>
              /\ response[r].report \in StoredRows
              /\ response[r].report.cols.series_data = InsertedColumns(r).series_data

\* 80 observations with five sentinels among them: the newest 60 of the 75
\* valid points are stored.
C12_Witness ==
    \E r \in Runs :
        /\ Len(fredResponse[r].observations) = 80
        /\ Cardinality({i \in 1..80 :
                           fredResponse[r].observations[i].value = "."}) = 5
        /\ fredResponse[r].observations[1].date = 1
        /\ Returned(r)
        /\ response[r].success
        /\ Len(response[r].report.cols.series_data) = 60
        /\ response[r].report.cols.series_data[1].date = 17
        /\ response[r].report.cols.series_data[60].date = 79

\* C13: the series_data of every stored row is in ascending order of date.
C13_SeriesSortedAscending ==
    \A n \in 1..Len(reports) :
        LET data == reports[n].cols.series_data
        IN \A i, j \in 1..Len(data) : i < j => data[i].date < data[j].date

\* The response of a run that has returned is one of the two structured
\* responses, success only after an accepted insert; a run that has not
\* returned has sent nothing.
StructuredResponse(r) ==
    IF ~Returned(r) THEN response[r] = NoResponse
    ELSE IsRun(r) =>
            /\ response[r].headers = JsonHeaders
            /\ response[r].hasBody
            /\ \/ /\ response[r].status = 200
                  /\ response[r].success
                  /\ response[r].error = NoMessage
                  /\ Issued(r, "store")
                  /\ result[r].error = NoMessage
                  /\ rowsInserted[r] = 1
                  /\ response[r].report \in StoredRows
               \/ /\ IsFailure(response[r])
                  /\ rowsInserted[r] = 0

\* C14: every run whose external calls all return comes to return a
\* response; it returns one response and never another; the response is
\* status 200 with success:true after an accepted insert, and status 500
\* with success:false and an error message otherwise, also when the model's
\* body has no choices and when the store rejects the insert ("Database
\* insertion failed").
C14_EveryRunEndsWithOneResponse ==
    /\ [](\A r \in Runs : StructuredResponse(r))
    /\ [](\A r \in Runs :
            /\ (openaiResponse[r].ok /\ ~openaiResponse[r].hasChoices) =>
                  Returned(r) /\ IsFailure(response[r])
            /\ (Returned(r) /\ result[r].error # NoMessage) =>
                  /\ IsFailure(response[r])
                  /\ response[r].error = <<"Database insertion failed">>
                  /\ response[r].details = result[r].error)
    /\ [][\A r \in Runs : Returned(r) =>
            pc'[r] = "done" /\ response'[r] = response[r]]_vars
    /\ \A r \in Runs : (pc[r] # "idle") ~> Returned(r)

C14_Witness ==
    \E r \in Runs :
        /\ IsRun(r)
        /\ openaiResponse[r].ok
        /\ ~openaiResponse[r].hasChoices
        /\ Returned(r)
        /\ IsFailure(response[r])
        /\ response[r].error = <<"Cannot read properties of undefined (reading '0')">>

\* fragments stand in text one after the other.
HoldsFragments(text, fragments) ==
    \E at \in 0..(Len(text) - Len(fragments)) :
        \A i \in 1..Len(fragments) : text[at + i] = fragments[i]

\* A text of the response body (error, details) holds the raw text.
CarriesRawText(resp, tokens) ==
    \/ HoldsFragments(resp.error, Fragments(tokens))
    \/ HoldsFragments(resp.details, Fragments(tokens))

\* The messages the validation throws.
ValidationMessages ==
    { <<"Missing required fields in AI response">>,
      <<"Rating must be a number between 1 and 10">>,
      <<"Productivity vs Labor score must be a number between 0 and 100">>,
      <<"American Dream score must be a number between 0 and 100">> }

\* The model has answered with its choices and the run has returned
\* without an insert: the inner catch has answered.
ParseFailed(r) ==
    /\ openaiResponse[r].ok
    /\ openaiResponse[r].hasChoices
    /\ Returned(r)
    /\ ~Issued(r, "store")

\* C15, as stated: the response of a run that fails in parsing or in
\* validation carries the raw text of the model.
C15_ParseFailureCarriesRawText ==
    \A r \in Runs :
        (ParseFailed(r) /\ AnsweredText(r) /\ rawContent(r) # << >>) =>
            CarriesRawText(response[r], rawContent(r))

\* C15, amended: the response of a run that fails in parsing or in
\* validation has error "AI response parsing failed" and, as details, the
\* message of the error thrown, and nothing else of the run; when validation
\* fails, details is one of the fixed validation messages and no text of the
\* response holds the raw text.
C15_ParseFailureCarriesMessageOnly ==
    \A r \in Runs :
        ParseFailed(r) =>
            /\ response[r] =
                  [NoResponse EXCEPT
                      !.status = 500, !.headers = JsonHeaders, !.hasBody = TRUE,
                      !.error = <<"AI response parsing failed">>,
                      !.details = ParseError(version, openaiResponse[r].content)]
            /\ response[r].details # NoMessage
            /\ (AnsweredObject(r) /\ rawContent(r) # << >>) =>
                  /\ response[r].details \in ValidationMessages
                  /\ ~CarriesRawText(response[r], rawContent(r))

C15_Witness ==
    \E r \in Runs :
        /\ ParseFailed(r)
        /\ AnsweredObject(r)
        /\ Len(rawContent(r)) = 2
        /\ response[r].details = <<"Missing required fields in AI response">>

\* C16: an OPTIONS request is answered at once with the cross-origin headers
\* and no body, whatever the environment holds: no credential check has
\* failed it, no call to the news, macro or model source and no insert has
\* been issued, and the table is as it was.
C16_PreflightDoesNothing ==
    \A r \in Runs :
        method[r] = "OPTIONS" =>
            /\ Returned(r)
            /\ response[r].headers = corsHeaders
            /\ ~response[r].hasBody
            /\ response[r].status = 200
            /\ response[r].error = NoMessage
            /\ calls[r] = << >>
            /\ NoRowOf(r)
            /\ newsResponse[r] = NoNewsResponse
            /\ fredResponse[r] = NoFredResponse
            /\ openaiResponse[r] = NoOpenAIResponse

C16_Witness ==
    \E r \in Runs :
        method[r] = "OPTIONS" /\ MissingCredentials = EnvKeys /\ Returned(r)

\* The row holds the validated fields of run r's own model answer and the
\* series run r itself drew and fetched.
IsOwnRow(row, r) ==
    /\ AnsweredObject(r)
    /\ InStatedDomain(version, answeredObject(r))
    /\ analysis[r] = answeredObject(r)
    /\ row.cols.rating = answeredObject(r)["rating"]
    /\ row.cols.summary = answeredObject(r)["summary"]
    /\ row.cols.productivity_insight = ToColumn(answeredObject(r)["productivity_insight"])
    /\ row.cols.american_dream_impact = ToColumn(answeredObject(r)["american_dream_impact"])
    /\ row.cols.prod_labor_score = ToColumn(answeredObject(r)["prod_labor_score"])
    /\ row.cols.american_dream_score = ToColumn(answeredObject(r)["american_dream_score"])
    /\ IF HasMacroStep(version)
       THEN /\ row.cols.series_id = Str(selectedSeries[r].id)
            /\ row.cols.series_title = Str(selectedSeries[r].title)
            /\ IsLastValidPoints(row.cols.series_data, fredResponse[r].observations)
       ELSE /\ row.cols.series_id = Null
            /\ row.cols.series_data = << >>

\* The rows of the table that are the row the store returned to run r.
RowsOf(r) == {i \in 1..Len(reports) : reports[i] = result[r].data}

Succeeded(r) == IsRun(r) /\ Returned(r) /\ response[r].success

\* C17: however the runs interleave, the table holds one row for each
\* accepted insert and no other row; the row of a run is in the table once,
\* is the row returned to the run, and holds the validated fields and the
\* series of that run; the rows of two runs are two rows; when all N runs
\* have succeeded the table holds N rows.
C17_ConcurrentRunsAreIndependent ==
    /\ Len(reports) = RowsInsertedBy(Runs)
    /\ \A r \in Runs :
          /\ rowsInserted[r] \in {0, 1}
          /\ rowsInserted[r] = 1 =>
                /\ Cardinality(RowsOf(r)) = 1
                /\ IsOwnRow(result[r].data, r)
                /\ \A q \in Runs \ {r} :
                      rowsInserted[q] = 1 => RowsOf(q) \cap RowsOf(r) = {}
          /\ Succeeded(r) =>
                rowsInserted[r] = 1 /\ response[r].report = result[r].data
    /\ (\A r \in Runs : Succeeded(r)) => Len(reports) = Cardinality(Runs)

\* Two runs in flight together, with answers and series of their own, the
\* run that was answered by the model first stored last.
C17_Witness ==
    /\ \A r \in Runs : Succeeded(r)
    /\ \E r, q \in Runs :
          /\ r # q
          /\ analysis[r]["rating"] # analysis[q]["rating"]
          /\ HasMacroStep(version)
          /\ seriesData[r] # seriesData[q]
          /\ result[r].data.id = Len(reports)
          /\ result[q].data.id = 1
          /\ result[q].data.cols.rating = Num(10)
          /\ result[r].data.cols.rating = Num(7)

\* C18: no step of a run, successful or failed, and no step of the
\* dashboard changes or removes a row of the table: every row is still
\* there, in its place and as it was, after the step.
C18_ReportsAreImmutable ==
    [][/\ Len(reports') >= Len(reports)
       /\ \A i \in 1..Len(reports) : reports'[i] = reports[i]]_vars

\* A row in the table, loaded by the dashboard, with a later refresh whose
\* run has failed and another run that has succeeded.
C18_Witness ==
    /\ Len(reports) >= 1
    /\ latestReport # NoReport
    /\ mount = "done"
    /\ toast = FailedToast
    /\ \E r \in Runs : Succeeded(r)
    /\ \E r \in Runs : IsRun(r) /\ Returned(r) /\ ~response[r].success

\* C19: in every row of the table, a score that is there comes with its
\* tooltip, there and not empty: prod_labor_score with prod_labor_tooltip,
\* american_dream_score with american_dream_tooltip.
C19_ScoreComesWithTooltip ==
    \A i \in 1..Len(reports) :
        LET c == reports[i].cols
        IN /\ c.prod_labor_score # Null => NonEmpty(c.prod_labor_tooltip)
           /\ c.american_dream_score # Null => NonEmpty(c.american_dream_tooltip)

C19_Witness ==
    \E i \in 1..Len(reports) :
        /\ version = "part_000"
        /\ reports[i].cols.prod_labor_score = Num(100)
        /\ reports[i].cols.prod_labor_tooltip = Str("prod_labor_tip")
        /\ reports[i].cols.american_dream_score = Num(50)
        /\ reports[i].cols.american_dream_tooltip = Str("american_dream_tooltip")

\* The length the prompts ask of a tooltip text.
TooltipLimit == 120

\* C20: the tooltips of every row of the table, where they are there, are
\* texts of at most 120 characters.
C20_TooltipsWithinLimit ==
    \A i \in 1..Len(reports) :
        \A t \in {reports[i].cols.prod_labor_tooltip,
                  reports[i].cols.american_dream_tooltip} :
            t # Null => t.type = "string" /\ Len(t.str) <= TooltipLimit

(***************************************************************************)
(* The articles of the prompt.                                             *)
(***************************************************************************)
\* The prompt of the model request of run r: the excerpts it is built from.
PromptOf(r) ==
    LET i == CHOOSE i \in 1..Len(calls[r]) : calls[r][i].to = "openai"
    IN calls[r][i].prompt

\* C21, as stated: on success articlesAnalyzed is the number of articles
\* whose text is in the prompt, for every number of fetched articles.
C21_ArticlesAnalyzedIsPromptCount ==
    \A r \in Runs :
        Succeeded(r) => response[r].articlesAnalyzed = Len(PromptOf(r))

\* A description that is not there: null, no field, or the empty text.
MissingDescription(d) == d \in {Null, Undefined, Str("")}

\* C26: the prompt of a run holds one excerpt for each of the first
\* min(n, 15) of the n fetched articles, in the fetched order, each with
\* the title, the date and the description of its article, 'No description'
\* standing for a description that is not there.
C26_PromptHoldsFirstArticles ==
    \A r \in Runs :
        Issued(r, "openai") =>
            LET fetchedArticles == newsResponse[r].articles
                n == Len(fetchedArticles)
            IN /\ Len(PromptOf(r)) = IF n < 15 THEN n ELSE 15
               /\ \A i \in 1..Len(PromptOf(r)) :
                     /\ PromptOf(r)[i].title = fetchedArticles[i].title
                     /\ PromptOf(r)[i].date = fetchedArticles[i].publishedAt
                     /\ PromptOf(r)[i].description =
                           IF MissingDescription(fetchedArticles[i].description)
                           THEN "No description"
                           ELSE fetchedArticles[i].description.str

C26_Witness ==
    \E r \in Runs :
        /\ Issued(r, "openai")
        /\ Len(newsResponse[r].articles) = 25
        /\ Len(PromptOf(r)) = 15
        /\ PromptOf(r)[15].title = 15
        /\ PromptOf(r)[15].description = "No description"
        /\ PromptOf(r)[14].description = "description"

(***************************************************************************)
(* The fenced answer.                                                      *)
(***************************************************************************)
\* A text that is one JSON value inside a json code fence: the marker, the
\* word json, the value, the marker, with line ends allowed around the
\* fence and around the value.
IsJsonFenced(tokens) ==
    LET t == Trim(tokens)
    IN /\ Len(t) >= 4
       /\ t[1].kind = "fence"
       /\ t[2].kind = "json"
       /\ t[Len(t)].kind = "fence"
       /\ LET inner == Trim(SubSeq(t, 3, Len(t) - 1))
          IN Len(inner) = 1 /\ inner[1].kind = "value"

\* The JSON value inside the fence.
FencedValue(tokens) ==
    LET t == Trim(tokens) IN Trim(SubSeq(t, 3, Len(t) - 1))[1].value

\* The model request of run r has returned and the run has gone on.
Answered(r) == AnsweredText(r) /\ pc[r] # "awaitModel"

\* The columns run r has handed to the insert.
ColumnsOf(r) ==
    LET i == CHOOSE i \in 1..Len(calls[r]) : calls[r][i].to = "store"
    IN calls[r][i].row

\* C24: a run answered with a JSON object inside a json code fence strips
\* the fence and parses the object: an object in the stated domain becomes
\* the analysis of the run and is handed to the insert, and the run does
\* what a run answered with the same object without a fence does (the same
\* analysis, the same columns to insert, the same failure response).
C24_FencedObjectParsesAsUnfenced ==
    \A r \in Runs :
        (/\ Answered(r)
         /\ IsJsonFenced(rawContent(r))
         /\ FencedValue(rawContent(r)).json = "object") =>
            /\ InStatedDomain(version, FencedValue(rawContent(r)).obj) =>
                  /\ analysis[r] = FencedValue(rawContent(r)).obj
                  /\ Issued(r, "store")
            /\ \A q \in Runs :
                  (/\ Answered(q)
                   /\ rawContent(q) = <<Token("value", FencedValue(rawContent(r)))>>) =>
                       /\ analysis[r] = analysis[q]
                       /\ Issued(r, "store") <=> Issued(q, "store")
                       /\ (Issued(r, "store") /\ selectedSeries[r] = selectedSeries[q]) =>
                             ColumnsOf(r) = ColumnsOf(q)
                       /\ ~Issued(r, "store") =>
                             /\ response[r] = response[q]
                             /\ IsParseFailure(response[r])

C24_Witness ==
    \E r, q \in Runs :
        /\ rawContent(r) = Fill(<<"fence", "json", "newline", "value", "newline", "fence">>,
                                JsonObject(PromptedObject(version)))
        /\ rawContent(q) = <<Token("value", JsonObject(PromptedObject(version)))>>
        /\ Succeeded(r)
        /\ Succeeded(q)
        /\ analysis[r] = PromptedObject(version)
        /\ analysis[q] = PromptedObject(version)

(***************************************************************************)
(* The order of the external steps.                                        *)
(***************************************************************************)
\* The external steps of a version, in the order of the claim (part_001 has
\* no macro step).
StepOrder(v) ==
    IF HasMacroStep(v) THEN <<"news", "fred", "openai", "store">>
    ELSE <<"news", "openai", "store">>

\* How far a run has come.
Stage(at) ==
    CASE at = "idle" -> 0
      [] at = "awaitNews" -> 1
      [] at = "awaitFred" -> 2
      [] at = "awaitModel" -> 3
      [] at = "awaitInsert" -> 4
      [] at = "insertReturned" -> 5
      [] at = "done" -> 6

\* The calls of run r so far are the first steps of the order, each once;
\* a step has been issued only if the step before it returned well; a step
\* that returned a failure is the last step of the run.
StepsInOrder(r) ==
    /\ Len(calls[r]) <= Len(StepOrder(version))
    /\ \A i \in 1..Len(calls[r]) : calls[r][i].to = StepOrder(version)[i]
    /\ Len(calls[r]) >= 2 => newsResponse[r].ok /\ Len(articles[r]) > 0
    /\ Issued(r, "openai") /\ HasMacroStep(version) => fredResponse[r].ok
    /\ Issued(r, "store") =>
          /\ openaiResponse[r].ok
          /\ AnsweredObject(r)
          /\ analysis[r] = answeredObject(r)
    /\ newsResponse[r] # NoNewsResponse /\ ~newsResponse[r].ok =>
          Len(calls[r]) = 1 /\ Returned(r)
    /\ fredResponse[r] # NoFredResponse /\ ~fredResponse[r].ok =>
          Len(calls[r]) = 2 /\ Returned(r)
    /\ openaiResponse[r] # NoOpenAIResponse /\ ~openaiResponse[r].ok =>
          calls[r][Len(calls[r])].to = "openai" /\ Returned(r)

\* C25: within one invocation the external steps are issued in the order
\* news, macro, model, insert, each at most once and only after the step
\* before it has returned well; a step of the run issues at most the next
\* call, never moves the run backward, and a run that has returned (after a
\* failure at any stage, or after success) issues nothing more.
C25_StepsInFixedOrder ==
    /\ [](\A r \in Runs : StepsInOrder(r))
    /\ [][\A r \in Runs :
            /\ \/ calls'[r] = calls[r]
               \/ /\ Len(calls'[r]) = Len(calls[r]) + 1
                  /\ SubSeq(calls'[r], 1, Len(calls[r])) = calls[r]
            /\ pc'[r] # pc[r] => Stage(pc'[r]) > Stage(pc[r])
            /\ Returned(r) =>
                  /\ calls'[r] = calls[r]
                  /\ pc'[r] = pc[r]
                  /\ response'[r] = response[r]]_vars

C25_Witness ==
    \E r \in Runs :
        /\ HasMacroStep(version)
        /\ Succeeded(r)
        /\ [i \in 1..Len(calls[r]) |-> calls[r][i].to]
              = <<"news", "fred", "openai", "store">>

(***************************************************************************)
(* The refresh of the dashboard.                                           *)
(***************************************************************************)
\* The step is a step of handleRefresh.
RefreshStep == refresh' # refresh \/ (refresh' = "invoking" /\ isLoading' # isLoading)

\* The step ends a refresh in the catch block: the invocation has returned
\* an error, or a body without success.
RefreshFails == refresh = "invoking" /\ refresh' = "idle"

\* The invocation of the refresh has returned a failure of the function.
FailureReturned ==
    /\ refresh = "invoking"
    /\ pc[invoked] = "done"
    /\ IsFailure(response[invoked])

\* C23: a refresh whose invocation fails (an error of the transport, a
\* status outside 2xx, a body with success:false) ends with the failure
\* notification, and no step of it up to there changes the report shown or
\* the last-updated text.
C23_FailedRefreshKeepsReport ==
    [][/\ RefreshFails =>
             /\ toast' = FailedToast
             /\ latestReport' = latestReport
             /\ lastUpdated' = lastUpdated
       /\ (FailureReturned /\ RefreshStep) => RefreshFails
       /\ (RefreshStep /\ refresh' = "invoking") =>
             /\ latestReport' = latestReport
             /\ lastUpdated' = lastUpdated]_vars

\* A report is shown, and the last refresh has failed on a failure response
\* of its run.
C23_Witness ==
    /\ latestReport # NoReport
    /\ lastUpdated # NoText
    /\ toast = FailedToast
    /\ refresh = "idle"
    /\ invoked \in Runs
    /\ pc[invoked] = "done"
    /\ IsFailure(response[invoked])

\* C28: isLoading is set exactly while a refresh is under way; a refresh
\* starts only when isLoading is not set (the button is disabled while it
\* is) and sets it, so the page never has two invocations in flight; every
\* end of a refresh (success, success:false, error) clears it; and once the
\* invocation has returned isLoading is eventually cleared.
C28_LoadingFlagBracketsRefresh ==
    /\ [](isLoading <=> refresh # "idle")
    /\ [][/\ (RefreshStep /\ refresh' = "invoking") =>
                /\ ~isLoading
                /\ refresh = "idle"
                /\ isLoading'
          /\ (RefreshStep /\ refresh' = "idle") => ~isLoading'
          /\ (RefreshStep /\ refresh' \notin {"invoking", "idle"}) =>
                isLoading /\ isLoading' /\ invoked' = invoked]_vars
    /\ (isLoading /\ pc[invoked] = "done") ~> ~isLoading

\* A second refresh is under way, after one that has succeeded and with
\* another run that has returned.
C28_Witness ==
    /\ isLoading
    /\ refresh = "invoking"
    /\ toast = UpdatedToast
    /\ pc[invoked] = "done"
    /\ \E r \in Runs \ {invoked} : Succeeded(r)

\* The select of the refresh returns, after the store has served it: an
\* error, or the row of the table with the greatest created_at if there is
\* a row.
IsLatestRow(selected, table) ==
    \/ selected.error /\ selected.data = << >>
    \/ /\ ~selected.error
       /\ IF table = << >> THEN selected.data = << >>
          ELSE /\ Len(selected.data) = 1
               /\ \E i \in 1..Len(table) : selected.data[1] = table[i]
               /\ \A i \in 1..Len(table) :
                     table[i].created_at <= selected.data[1].created_at

\* C29: a refresh goes on to the select only after its run has returned
\* success; the select returns the row with the greatest created_at of the
\* table as it is then; the refresh ends with the success notification and
\* shows the row of the select, whatever row the run has returned, and
\* keeps the report shown before when the select has failed or has returned
\* no row.
C29_RefreshShowsRefetchedRow ==
    [][/\ (refresh = "invoking" /\ refresh' = "selecting") =>
             Succeeded(invoked)
       /\ (refresh = "selecting" /\ refresh' = "selected") =>
             IsLatestRow(fetched'["refresh"], reports)
       /\ (refresh = "selected" /\ refresh' # refresh) =>
             /\ refresh' = "idle"
             /\ toast' = UpdatedToast
             /\ IF fetched["refresh"].error \/ fetched["refresh"].data = << >>
                THEN latestReport' = latestReport /\ lastUpdated' = lastUpdated
                ELSE /\ latestReport'.id = fetched["refresh"].data[1].id
                     /\ latestReport'.created_at = fetched["refresh"].data[1].created_at
                     /\ latestReport'.cols.rating = fetched["refresh"].data[1].cols.rating
                     /\ latestReport'.cols.summary = fetched["refresh"].data[1].cols.summary
                     /\ lastUpdated' # NoText]_vars

\* The refresh has succeeded and the page shows the row of another run,
\* which the select has returned.
C29_Witness ==
    /\ refresh = "idle"
    /\ toast = UpdatedToast
    /\ invoked \in Runs
    /\ Succeeded(invoked)
    /\ fetched["refresh"].data # << >>
    /\ latestReport.id = fetched["refresh"].data[1].id
    /\ latestReport.id # response[invoked].report.id
    /\ \E r \in Runs \ {invoked} : response[r].report.id = latestReport.id

(***************************************************************************)
(* The history page.                                                       *)
(***************************************************************************)
\* The page shows its cards and charts: the fetch is over, without error.
Shown == ~loading /\ error = ""

Missing(x) == x \in {Null, Undefined}

\* The samples dated on or after 2025-01-01.
OnOrAfterBaseline(data, dateKey) ==
    {i \in 1..Len(data) : data[i][dateKey] >= BaselineDate}

\* The samples of the earliest date among the samples of a set.
Earliest(data, dateKey, among) ==
    {i \in among : \A j \in among : data[i][dateKey] <= data[j][dateKey]}

\* d is latest minus baseline for the baseline samples given: null when
\* there is no baseline sample or a value of the two is missing.
IsLatestMinus(d, data, metric, baselines) ==
    IF baselines = {} THEN d = Null
    ELSE \E i \in baselines :
            IF Missing(data[i][metric]) \/ Missing(data[Len(data)][metric])
            THEN d = Null
            ELSE d = Num(data[Len(data)][metric].num - data[i][metric].num)

\* C22, as stated: the delta of every card is the value of the last sample
\* minus the value of the earliest sample dated on or after 2025-01-01, and
\* null when there is no such sample, no sample, or a null value at either
\* end.
C22_DeltaIsLatestMinusBaseline ==
    Shown =>
        \A card \in DeltaCards[historyVersion] :
            LET data == DataOf(card.metric)
                dateKey == DateKeyOf(card.metric)
            IN IsLatestMinus(deltaValue(card.metric), data, card.metric,
                             Earliest(data, dateKey,
                                      OnOrAfterBaseline(data, dateKey)))

\* C22, amended: as stated in History.tsx; in part_002 the baseline is the
\* earliest sample of all when no sample is dated on or after 2025-01-01,
\* so the delta is null only when there is no sample or a null value at
\* either end.
C22_DeltaFallsBackToFirstSample ==
    Shown =>
        \A card \in DeltaCards[historyVersion] :
            LET data == DataOf(card.metric)
                dateKey == DateKeyOf(card.metric)
                late == OnOrAfterBaseline(data, dateKey)
            IN IsLatestMinus(deltaValue(card.metric), data, card.metric,
                             IF late = {} /\ historyVersion = "part_002"
                             THEN Earliest(data, dateKey, 1..Len(data))
                             ELSE Earliest(data, dateKey, late))

\* part_002 shows a delta of the rating over samples that are all dated
\* before 2025-01-01.
C22_Witness ==
    /\ Shown
    /\ historyVersion = "part_002"
    /\ Len(reportData) = 2
    /\ OnOrAfterBaseline(reportData, "created_at") = {}
    /\ reportData[1].rating = Num(3)
    /\ reportData[2].rating = Num(7)
    /\ deltaValue("rating") = Num(4)

HigherIsBetter == {"rating", "prod_labor_score", "american_dream_score", "median_income"}
LowerIsBetter == {"unrate", "gini_index"}

\* C27: the colour of the delta of every card is the neutral one for a null
\* or zero delta, the one of an improvement for a rise of a metric of which
\* higher is better and for a fall of a metric of which lower is better,
\* and the one of a regression otherwise; part_002 has a card for each of
\* the six metrics.
C27_DeltaColourFollowsPolarity ==
    /\ \A card \in DeltaCards[historyVersion] :
          card.metric \in HigherIsBetter \cup LowerIsBetter
    /\ historyVersion = "part_002" =>
          {card.metric : card \in DeltaCards[historyVersion]}
              = HigherIsBetter \cup LowerIsBetter
    /\ Shown =>
          \A card \in DeltaCards[historyVersion] :
              LET d == deltaValue(card.metric)
              IN getDeltaColor(historyVersion, card.isPositiveGood, d) =
                    IF d = Null \/ d = Num(0) THEN "text-gray-600"
                    ELSE IF \/ card.metric \in HigherIsBetter /\ d.num > 0
                            \/ card.metric \in LowerIsBetter /\ d.num < 0
                    THEN "text-green-600"
                    ELSE "text-red-600"

\* Unemployment has fallen, which shows green; the Gini index has risen,
\* which shows red; the income has fallen, which shows red.
C27_Witness ==
    /\ Shown
    /\ historyVersion = "part_002"
    /\ deltaValue("unrate") = Num(-1)
    /\ deltaValue("gini_index") = Num(2)
    /\ deltaValue("median_income") = Num(-10)
    /\ \E card \in DeltaCards[historyVersion] :
          /\ card.metric = "unrate"
          /\ getDeltaColor(historyVersion, card.isPositiveGood,
                           deltaValue("unrate")) = "text-green-600"

\* A value that is a number.
IsNumeric(x) == x.type = "number" /\ x # NaN

\* The lists formatChartData is checked on: the samples of the page in
\* every order, and the same with the value of one record replaced by
\* undefined, by NaN and by a text that is no number.
ChartInputs(data, key) ==
    LET lists == {data} \cup IF data = << >> THEN {}
                             ELSE {[data EXCEPT ![1][key] = x] :
                                      x \in {Undefined, NaN, Str("n/a")}}
    IN UNION {{[i \in 1..Len(l) |-> l[p[i]]] : p \in Permutations(1..Len(l))} :
                 l \in lists}

\* points is the chart of input: one point for each day on which input has
\* a record with a numeric value, that point carrying the timestamp and the
\* value of a record of the day than which no record of the day with a
\* numeric value is later, and the points ascending by timestamp.
IsChartOf(points, input, key, dateKey) ==
    LET valid == {i \in 1..Len(input) : IsNumeric(input[i][key])}
        days == {DayOf(input[i][dateKey]) : i \in valid}
    IN /\ Len(points) = Cardinality(days)
       /\ \A day \in days :
             \E k \in 1..Len(points) :
                /\ points[k].dateStr = day
                /\ \E i \in valid :
                      /\ DayOf(input[i][dateKey]) = day
                      /\ \A j \in valid :
                            DayOf(input[j][dateKey]) = day =>
                                input[j][dateKey] <= input[i][dateKey]
                      /\ points[k].fullDate = input[i][dateKey]
                      /\ points[k].value = input[i][key]
       /\ \A k \in 1..Len(points) : points[k].dateStr \in days
       /\ \A j, k \in 1..Len(points) :
             j < k => points[j].fullDate < points[k].fullDate

\* C30: for every list of dated records formatChartData of part_002 returns
\* one point for each calendar day that has a record with a numeric value,
\* the point of the latest such record of the day, the points ascending by
\* timestamp; a record with a null or non-numeric value gives no point.
C30_ChartHasLatestPointOfEachDay ==
    (Shown /\ historyVersion = "part_002") =>
        \A metric \in ReportMetrics \cup MacroMetrics :
            \A input \in ChartInputs(DataOf(metric), metric) :
                IsChartOf(formatChartData(input, metric, DateKeyOf(metric)),
                          input, metric, DateKeyOf(metric))

\* Three samples, the last two of them on the baseline day, the last but
\* one without scores: the chart of the rating has a point for each of the
\* two days, the second one of the later sample of its day, and the sample
\* without scores gives no point to the chart of a score.
C30_Witness ==
    /\ Shown
    /\ historyVersion = "part_002"
    /\ Len(reportData) = 3
    /\ reportData[1].created_at < BaselineDate
    /\ reportData[2].created_at = Instant(BaselineDay, 0)
    /\ reportData[2].rating = Num(3)
    /\ reportData[2].prod_labor_score = Null
    /\ reportData[3].created_at = Instant(BaselineDay, TicksPerDay - 1)
    /\ reportData[3].rating = Num(7)
    /\ LET chart == formatChartData(reportData, "rating", "created_at")
       IN /\ Len(chart) = 2
          /\ chart[2].value = Num(7)
          /\ chart[2].fullDate = Instant(BaselineDay, TicksPerDay - 1)
    /\ LET chart == formatChartData(<<reportData[1], reportData[2]>>,
                                    "prod_labor_score", "created_at")
       IN Len(chart) = 1 /\ chart[1].fullDate = reportData[1].created_at

====
